---- MODULE Spec2Model ----
(***************************************************************************)
(* Hybrid pixel-ticket detection and learning engine.                      *)
(*                                                                         *)
(*   src/pixel_notification_monitor.py  rule engine, rich-text normalizer  *)
(*   src/enhanced_pixel_monitor.py      confidence table, classify path    *)
(*   src/archive/learning_system.py     feature extractor, fusion,         *)
(*                                      feedback / training store          *)
(*                                                                         *)
(* Conventions.                                                            *)
(*  - Python str values are TLA+ strings; "x in text" is substring         *)
(*    containment (Contains), str.lower() is lower, str.split() is         *)
(*    counted by word_count.                                               *)
(*  - A ticket body is a tagged value: None, Str(s), a dict node of the    *)
(*    tracker's rich-text format, or a list of nodes.                      *)
(*  - Confidences are exact integers in thousandths (0.95 is 950); the     *)
(*    fusion weights are tenths (0.6 is 6).                                *)
(***************************************************************************)
EXTENDS Integers, Sequences, FiniteSets, TLC

VARIABLES
    summary,        \* title of the ticket being classified
    description,    \* its body (tagged value)
    model,          \* self.model of the learning system: "None" or a training run
    vectorizer,     \* self.vectorizer: "None" or a training run
    ml_out,         \* what the fitted model answers for this ticket
    pc,             \* "ready" before the call, "done" after it
    out,            \* the value the last call returned
    db,             \* learning_data.db as committed on disk
    txn,            \* the open connection's uncommitted view of db
    pending,        \* rows fetched by the materialization pass, not yet handled
    spc,            \* position inside record_feedback
    files,          \* pixel_detection_model.pkl and text_vectorizer.pkl on disk
    model_performance,  \* the model_performance table, in rowid order
    clock,          \* CURRENT_TIMESTAMP, in whole seconds
    trainer,        \* a train_ml_model call under way: its position and its run
    loader,         \* the constructor's load_or_create_model: position, files read
    workers,        \* concurrent record_feedback calls: position and fetched rows of each
    writer,         \* the connection holding learning_data.db's write lock, 0 for none
    running,        \* ContinuousPixelMonitor.running
    paused,         \* ContinuousPixelMonitor.paused
    pause_lock,     \* the thread holding ContinuousPixelMonitor.pause_lock, or "free"
    main_pc,        \* the main thread's position in run()
    input_pc,       \* the input thread's position in handle_user_input()
    due             \* time_since_check >= check_interval

vars == <<summary, description, model, vectorizer, ml_out, pc, out,
          db, txn, pending, spc,
          files, model_performance, clock, trainer, loader,
          workers, writer,
          running, paused, pause_lock, main_pc, input_pc, due>>

classifyVars == <<summary, description, model, vectorizer, ml_out, pc, out>>
storeVars == <<db, txn, pending, spc>>
artifactVars == <<files, model_performance, clock, trainer, loader>>
raceVars == <<workers, writer>>
monitorVars == <<running, paused, pause_lock, main_pc, input_pc, due>>
concurrentVars == <<raceVars, monitorVars>>
learningVars == <<classifyVars, storeVars, artifactVars>>

-----------------------------------------------------------------------------
(* Bounds *)

\* titles are built from at most MaxFrags fragments of Vocabulary
MaxFrags == 2
\* record_feedback calls in one run
MaxFeedback == 3

-----------------------------------------------------------------------------
(* Python values *)

None == [k |-> "none"]
Str(s) == [k |-> "str", s |-> s]
\* a dict carrying a 'content' list
Node(type, content) ==
    [k |-> "dict", type |-> type, has_content |-> TRUE, content |-> content,
     has_text |-> FALSE, text |-> ""]
\* a dict carrying a 'text' string
TextNode(text) ==
    [k |-> "dict", type |-> "text", has_content |-> FALSE, content |-> <<>>,
     has_text |-> TRUE, text |-> text]
\* a dict with neither 'content' nor 'text'
BareNode(type) ==
    [k |-> "dict", type |-> type, has_content |-> FALSE, content |-> <<>>,
     has_text |-> FALSE, text |-> ""]
List(items) == [k |-> "list", items |-> items]

\* Python truth value of a body: None, '', {} and [] are falsy
Truthy(v) ==
    CASE v.k = "none" -> FALSE
      [] v.k = "str"  -> v.s # ""
      [] v.k = "dict" -> v.type # "" \/ v.has_content \/ v.has_text
      [] v.k = "list" -> v.items # <<>>

-----------------------------------------------------------------------------
(* Strings *)

UpperToLower ==
    [c \in {"A","B","C","D","E","F","G","H","I","J","K","L","M",
            "N","O","P","Q","R","S","T","U","V","W","X","Y","Z"} |->
        CASE c = "A" -> "a" [] c = "B" -> "b" [] c = "C" -> "c" [] c = "D" -> "d"
          [] c = "E" -> "e" [] c = "F" -> "f" [] c = "G" -> "g" [] c = "H" -> "h"
          [] c = "I" -> "i" [] c = "J" -> "j" [] c = "K" -> "k" [] c = "L" -> "l"
          [] c = "M" -> "m" [] c = "N" -> "n" [] c = "O" -> "o" [] c = "P" -> "p"
          [] c = "Q" -> "q" [] c = "R" -> "r" [] c = "S" -> "s" [] c = "T" -> "t"
          [] c = "U" -> "u" [] c = "V" -> "v" [] c = "W" -> "w" [] c = "X" -> "x"
          [] c = "Y" -> "y" [] c = "Z" -> "z"]

\* str.lower(), character by character
RECURSIVE lower(_)
lower(s) ==
    IF Len(s) = 0 THEN ""
    ELSE IF Len(s) = 1
         THEN (IF s \in DOMAIN UpperToLower THEN UpperToLower[s] ELSE s)
    ELSE LET h == Len(s) \div 2
         IN  lower(SubSeq(s, 1, h)) \o lower(SubSeq(s, h + 1, Len(s)))

\* needle in text
Contains(needle, text) ==
    \E i \in 1..(Len(text) - Len(needle) + 1) :
        SubSeq(text, i, i + Len(needle) - 1) = needle

\* ' '.join(parts)
RECURSIVE JoinSpace(_)
JoinSpace(parts) ==
    IF Len(parts) = 0 THEN ""
    ELSE IF Len(parts) = 1 THEN parts[1]
    ELSE parts[1] \o " " \o JoinSpace(Tail(parts))

\* len(text.split()): the number of maximal runs of non-blank characters
word_count(text) ==
    Cardinality({i \in 1..Len(text) :
        /\ SubSeq(text, i, i) # " "
        /\ (i = 1 \/ SubSeq(text, i - 1, i - 1) = " ")})

\* sum(1 for w in words if w in text)
CountIn(words, text) == Cardinality({i \in 1..Len(words) : Contains(words[i], text)})

\* any(w in text for w in words)
AnyIn(words, text) == \E i \in 1..Len(words) : Contains(words[i], text)

\* index of the first element of words that occurs in text, 0 when none does
FirstIn(words, text) ==
    LET hits == {i \in 1..Len(words) : Contains(words[i], text)}
    IN  IF hits = {} THEN 0 ELSE CHOOSE i \in hits : \A j \in hits : i <= j

-----------------------------------------------------------------------------
(* Text Normalizer *)

RECURSIVE extract_text_from_rich_format(_)
extract_text_from_rich_format(data) ==
    CASE data.k = "str" -> data.s
      [] data.k = "dict" ->
            IF data.has_content
            THEN JoinSpace([i \in 1..Len(data.content) |->
                                extract_text_from_rich_format(data.content[i])])
            ELSE IF data.has_text THEN data.text
            ELSE ""
      [] data.k = "list" ->
            JoinSpace([i \in 1..Len(data.items) |->
                                extract_text_from_rich_format(data.items[i])])
      [] OTHER -> "None"

-----------------------------------------------------------------------------
(* Rule Engine *)

exclusions ==
    << "acr", "delivery report", "access request", "grant access",
       "monitoring alert", "o&o monitoring", "user sync", "sync pixel",
       "planning module", "linear ads" >>

high_confidence_keywords ==
    << "pixel validation", "pixel firing", "pixel not firing", "conversion pixel",
       "tracking pixel", "universal tag", "piggyback", "appending a pixel",
       "append pixel" >>

pixel_contexts ==
    << "confirmation", "conversion", "firing", "tracking", "validation",
       "website", "page", "code", "tag", "implement", "install", "setup",
       "not working", "0 conversions", "troubleshoot" >>

tracking_keywords == << "tracking", "tag", "javascript", "js" >>
action_keywords == << "implement", "install", "setup", "add", "place", "deploy" >>
web_terms == << "web", "website", "page", "tag" >>

Verdict(v, r) == [verdict |-> v, reason |-> r]

\* the body as text: dicts go through the normalizer, strings are taken as is
desc_text(d) ==
    IF ~Truthy(d) THEN ""
    ELSE IF d.k = "dict" THEN extract_text_from_rich_format(d)
    ELSE d.s

\* text = (summary + ' ' + desc_text).lower()
combined_text(s, d) == lower(s \o " " \o desc_text(d))

\* a rule order that tries the high-confidence phrases before the exclusions
rule_steps_high_first(text) ==
    LET ex == FirstIn(exclusions, text)
        hi == FirstIn(high_confidence_keywords, text)
    IN  IF hi # 0 THEN Verdict(TRUE, "high:" \o high_confidence_keywords[hi])
        ELSE IF ex # 0 THEN Verdict(FALSE, "excluded:" \o exclusions[ex])
        ELSE Verdict(FALSE, "no_match")

\* a matcher that takes the short tracking keywords on word boundaries only
rule_steps_no_substring(text) ==
    LET ex == FirstIn(exclusions, text)
        hi == FirstIn(high_confidence_keywords, text)
        cx == FirstIn(pixel_contexts, text)
    IN  IF ex # 0 THEN Verdict(FALSE, "excluded:" \o exclusions[ex])
        ELSE IF hi # 0 THEN Verdict(TRUE, "high:" \o high_confidence_keywords[hi])
        ELSE IF Contains("pixel", text) /\ cx # 0
             THEN Verdict(TRUE, "pixel_context:" \o pixel_contexts[cx])
        ELSE IF AnyIn(<< "tracking", " tag ", "javascript", " js " >>, " " \o text \o " ")
                /\ AnyIn(action_keywords, text)
             THEN Verdict(TRUE, "medium:tracking_action")
        ELSE IF Contains("conversion", text) /\ AnyIn(web_terms, text)
             THEN Verdict(TRUE, "medium:conversion_web")
        ELSE Verdict(FALSE, "no_match")

\* a context loop that keeps the last context word it finds
rule_steps_last_context(text) ==
    LET ex == FirstIn(exclusions, text)
        hi == FirstIn(high_confidence_keywords, text)
        hits == {i \in 1..Len(pixel_contexts) : Contains(pixel_contexts[i], text)}
    IN  IF ex # 0 THEN Verdict(FALSE, "excluded:" \o exclusions[ex])
        ELSE IF hi # 0 THEN Verdict(TRUE, "high:" \o high_confidence_keywords[hi])
        ELSE IF Contains("pixel", text) /\ hits # {}
             THEN Verdict(TRUE, "pixel_context:"
                     \o pixel_contexts[CHOOSE i \in hits : \A j \in hits : j <= i])
        ELSE IF AnyIn(tracking_keywords, text) /\ AnyIn(action_keywords, text)
             THEN Verdict(TRUE, "medium:tracking_action")
        ELSE IF Contains("conversion", text) /\ AnyIn(web_terms, text)
             THEN Verdict(TRUE, "medium:conversion_web")
        ELSE Verdict(FALSE, "no_match")

\* steps 1..5 on the combined text, first match wins
rule_steps(text) ==
    LET ex == FirstIn(exclusions, text)
        hi == FirstIn(high_confidence_keywords, text)
        cx == FirstIn(pixel_contexts, text)
    IN  IF ex # 0 THEN Verdict(FALSE, "excluded:" \o exclusions[ex])
        ELSE IF hi # 0 THEN Verdict(TRUE, "high:" \o high_confidence_keywords[hi])
        ELSE IF Contains("pixel", text) /\ cx # 0
             THEN Verdict(TRUE, "pixel_context:" \o pixel_contexts[cx])
        ELSE IF AnyIn(tracking_keywords, text) /\ AnyIn(action_keywords, text)
             THEN Verdict(TRUE, "medium:tracking_action")
        ELSE IF Contains("conversion", text) /\ AnyIn(web_terms, text)
             THEN Verdict(TRUE, "medium:conversion_web")
        ELSE Verdict(FALSE, "no_match")

\* a guard that lets a ticket without a title be classified from its body
is_pixel_related_ticket_body_fallback(s, d) ==
    IF s = "" /\ desc_text(d) = "" THEN Verdict(FALSE, "no_summary")
    ELSE rule_steps(combined_text(s, d))

is_pixel_related_ticket(s, d) ==
    IF s = "" THEN Verdict(FALSE, "no_summary")
    ELSE rule_steps(combined_text(s, d))

-----------------------------------------------------------------------------
(* Confidence table *)

confidence_map ==
    [r \in {"high:pixel_validation", "high:pixel_not_firing", "high:conversion_pixel",
            "high:tracking_pixel", "high:universal_tag", "high:append_pixel",
            "medium:tracking_action", "medium:conversion_web",
            "pixel_context:firing", "pixel_context:validation",
            "pixel_context:setup", "pixel_context:conversion", "no_match"} |->
        CASE r = "high:pixel_validation"    -> 950
          [] r = "high:pixel_not_firing"    -> 950
          [] r = "high:conversion_pixel"    -> 900
          [] r = "high:tracking_pixel"      -> 900
          [] r = "high:universal_tag"       -> 900
          [] r = "high:append_pixel"        -> 850
          [] r = "medium:tracking_action"   -> 600
          [] r = "medium:conversion_web"    -> 700
          [] r = "pixel_context:firing"     -> 850
          [] r = "pixel_context:validation" -> 850
          [] r = "pixel_context:setup"      -> 750
          [] r = "pixel_context:conversion" -> 800
          [] r = "no_match"                 -> 0]

\* confidence_map.get(rule_reason, 0.5)
estimate_rule_confidence(rule_reason) ==
    IF rule_reason \in DOMAIN confidence_map THEN confidence_map[rule_reason] ELSE 500

-----------------------------------------------------------------------------
(* Feature Extractor *)

feature_contexts ==
    << "firing", "load", "implement", "setup", "troubleshoot", "validate", "test" >>
technical_terms ==
    << "javascript", "js", "tag", "code", "snippet", "implementation", "gtm" >>
exclusion_indicators ==
    << "acr", "delivery report", "access request", "user sync", "planning module",
       "linear ads" >>
action_words ==
    << "implement", "install", "setup", "add", "place", "deploy", "configure" >>

count_pixel_contexts(text) ==
    IF Contains("pixel", text) THEN CountIn(feature_contexts, text) ELSE 0
count_technical_terms(text) == CountIn(technical_terms, text)
count_exclusion_indicators(text) == CountIn(exclusion_indicators, text)
count_action_words(text) == CountIn(action_words, text)

\* summary + " " + (description or ""): raises TypeError when the body is a
\* non-empty value that is not a str
concat_raises(d) == Truthy(d) /\ d.k # "str"
concat_text(s, d) == lower(s \o " " \o (IF Truthy(d) THEN d.s ELSE ""))

features_of(text) ==
    [length             |-> Len(text),
     word_count         |-> word_count(text),
     has_pixel          |-> Contains("pixel", text),
     has_tracking       |-> AnyIn(tracking_keywords, text),
     has_conversion     |-> Contains("conversion", text),
     has_validation     |-> Contains("validation", text),
     has_firing         |-> Contains("firing", text),
     pixel_with_context |-> count_pixel_contexts(text),
     technical_terms    |-> count_technical_terms(text),
     has_exclusions     |-> count_exclusion_indicators(text),
     action_words       |-> count_action_words(text),
     dsp_related        |-> Contains("dsp", text) \/ Contains("creative", text),
     web_related        |-> AnyIn(<< "web", "website", "page" >>, text),
     campaign_related   |-> Contains("campaign", text)]

\* a variant that reports the context count only for texts that mention a pixel
extract_features_sparse(s, d) ==
    LET f == features_of(concat_text(s, d))
    IN  IF f.has_pixel THEN f
        ELSE [n \in (DOMAIN f) \ {"pixel_with_context"} |-> f[n]]

extract_features(s, d) == features_of(concat_text(s, d))

-----------------------------------------------------------------------------
(* Statistical Model and Fusion Policy *)

\* (False, 0.0) without a loaded pair, the fitted model's answer otherwise
predict_ml(s, d) ==
    IF model = "None" \/ vectorizer = "None"
    THEN [prediction |-> FALSE, confidence |-> 0]
    ELSE ml_out

Decision(final, score, rule_result, rule_conf, ml, feats, method) ==
    [final_prediction |-> final,
     combined_score   |-> score,
     analysis |-> [rule_based     |-> [prediction |-> rule_result, confidence |-> rule_conf],
                   ml_based       |-> ml,
                   combined_score |-> score,
                   features       |-> feats,
                   method         |-> method]]

\* a switch of the rule weight that already happens at 0.8
rule_weight_inclusive(ml_confidence) == IF ml_confidence >= 800 THEN 4 ELSE 6

\* the two weightings of the hybrid branch, in tenths
rule_weight(ml_confidence) == IF ml_confidence > 800 THEN 4 ELSE 6
ml_weight(ml_confidence) == IF ml_confidence > 800 THEN 6 ELSE 4

\* a fusion whose threshold is inclusive
hybrid_detection_inclusive(s, d, rule_based_result, rule_confidence) ==
    LET ml == predict_ml(s, d)
        score == (rule_confidence * rule_weight(ml.confidence)
                    + ml.confidence * ml_weight(ml.confidence)) \div 10
    IN  IF model # "None"
        THEN Decision(score >= 500, score, rule_based_result, rule_confidence, ml,
                      extract_features(s, d), "hybrid")
        ELSE Decision(rule_based_result, rule_confidence, rule_based_result,
                      rule_confidence,
                      [prediction |-> rule_based_result, confidence |-> rule_confidence],
                      extract_features(s, d), "rule_based_only")

\* a fusion that averages with the model's no-opinion answer when none is loaded
hybrid_detection_always_weighted(s, d, rule_based_result, rule_confidence) ==
    LET ml == predict_ml(s, d)
        score == (rule_confidence * rule_weight(ml.confidence)
                    + ml.confidence * ml_weight(ml.confidence)) \div 10
    IN  Decision(score > 500, score, rule_based_result, rule_confidence, ml,
                 extract_features(s, d),
                 IF model # "None" THEN "hybrid" ELSE "rule_based_only")

hybrid_detection(s, d, rule_based_result, rule_confidence) ==
    LET ml == predict_ml(s, d)
        score == (rule_confidence * rule_weight(ml.confidence)
                    + ml.confidence * ml_weight(ml.confidence)) \div 10
    IN  IF model # "None"
        THEN Decision(score > 500, score, rule_based_result, rule_confidence, ml,
                      extract_features(s, d), "hybrid")
        ELSE Decision(rule_based_result, rule_confidence, rule_based_result,
                      rule_confidence,
                      [prediction |-> rule_based_result, confidence |-> rule_confidence],
                      extract_features(s, d), "rule_based_only")

\* (final_result, rule_reason, combined_confidence, analysis)
enhanced_is_pixel_related_ticket(s, d) ==
    LET rule == is_pixel_related_ticket(s, d)
        rule_confidence == estimate_rule_confidence(rule.reason)
        h == hybrid_detection(s, d, rule.verdict, rule_confidence)
    IN  [final_result        |-> h.final_prediction,
         rule_reason         |-> rule.reason,
         combined_confidence |-> h.combined_score,
         analysis            |-> h.analysis]

-----------------------------------------------------------------------------
(* Tickets *)

\* the titles of test_detection
TestTitles ==
    { "Ministry of Supply Pixel Validation Request",
      "Porter Airlines pixel not firing on confirmation page",
      "Pixels not firing in DSP though appearing in Adform",
      "Verification on universal tags",
      "Campaign going live TODAY - needs revenue tracking pixel setup",
      "Website Pixel Conversion Data Not Showing Starting on 6/16/25",
      "U-Variable ingestion in website pixel",
      "Conversion pixel troubleshooting - 0 conversions showing",
      "Web Conversion - Pixel Data Troubleshooting",
      "Appending a pixel for line items",
      "ACR delivery report for Q3",
      "Grant access to dashboard for new user",
      "O&O monitoring alert - server down",
      "Weekly delivery report schedule change",
      "Xandr GDPR updated macro for user sync pixels",
      "FW User Sync Pixels Change scheduled for Monday",
      "Planning Module Usage Report enhancement request",
      "Linear Ads Delivery report with pixel mentioned",
      "Permission request for advertiser account" }

PS9998_summary == "DSP creatives are not moving into Ready state from In-Setup"
PS9998_description ==
    Str("Hi Team, many of the team members are facing issues in DSP where the newly created creatives are not moving from In-setup stage to ready. This is preventing the QA teams from completing creative QA and also Ad-ops from attaching these creatives to campaigns.")

\* a structured body: two text runs in a paragraph, then a node without text
RichBody ==
    Node("doc", << Node("paragraph", << TextNode("pixel not"), TextNode("firing on page") >>),
                   BareNode("rule") >>)

\* a structured body whose nodes carry no text
BlankDoc == Node("doc", << BareNode("paragraph"), BareNode("rule") >>)

Ticket(s, d) == [summary |-> s, description |-> d]

ExampleTickets ==
    {Ticket(t, Str("")) : t \in TestTitles}
        \cup { Ticket(PS9998_summary, PS9998_description),
               Ticket(PS9998_summary, Str("")),
               Ticket("Test pixel validation issue", Str("Testing enhanced detection")),
               Ticket("Tag setup for new campaign", None),
               Ticket("", Str("user sync pixel")),
               Ticket("", Str("")),
               Ticket("Creative QA", RichBody),
               Ticket("Pixel question", BareNode("")) }

Vocabulary ==
    { "user", "sync", "Pixels", "macro", "Conversion pixel", "Linear Ads",
      "setup", "stage", "tracking", "web conversion" }

Bodies ==
    { None, Str(""), Str("sync pixel firing"), Str("Grant access to dashboard"),
      RichBody, BlankDoc, BareNode("") }

\* the titles made of at most n fragments, joined by blanks
TitlesUpTo(n) ==
    {JoinSpace(fs) : fs \in UNION {[1..k -> Vocabulary] : k \in 0..n}}

GeneratedTickets == {Ticket(t, d) : t \in TitlesUpTo(MaxFrags), d \in Bodies}

\* tickets that mention a pixel beside one or two of the context words, in the
\* title or, for a ticket without a title, in the body
ContextWords == {pixel_contexts[i] : i \in 1..Len(pixel_contexts)}
ContextTickets ==
    {Ticket("Pixels: " \o v \o ", " \o w, None) : v \in ContextWords, w \in ContextWords}
        \cup {Ticket("Pixels: " \o w, Str("")) : w \in ContextWords}
        \cup {Ticket("", Str("Pixels: " \o w)) : w \in ContextWords}

\* max(predict_proba) of a two-class model, in thousandths
MLConfidences == {500, 600, 700, 800, 900, 1000}
MLAnswers == [prediction : BOOLEAN, confidence : MLConfidences]
NoAnswer == [prediction |-> FALSE, confidence |-> 0]

\* the values estimate_rule_confidence can return
RuleConfidences == {confidence_map[r] : r \in DOMAIN confidence_map} \cup {500}

-----------------------------------------------------------------------------
(* Feedback Store and Training Data Materializer *)

\* The tables of learning_data.db.  feedback and training_data are kept in rowid
\* order; training_seq is the AUTOINCREMENT counter of training_data.  upserts is
\* history, not a column: upserts[i] counts the training_data upserts made from
\* feedback row i, and is written and rolled back with the tables.
EmptyDb ==
    [feedback |-> <<>>, training_data |-> <<>>, training_seq |-> 0, upserts |-> <<>>]

user_feedbacks == {"true_positive", "false_positive", "false_negative"}

\* the tickets a user gives feedback on
StoreTickets ==
    { [ticket_id |-> "PS-9998", summary |-> PS9998_summary,
       description |-> Str("Hi Team, many of the team members are facing issues in DSP...")],
      [ticket_id |-> "PS-1001", summary |-> "Test pixel validation issue",
       description |-> None] }

\* the reason and confidence collect_feedback passes on for a ticket
ReasonOf(t) == is_pixel_related_ticket(t.summary, t.description).reason
ConfidenceOf(t) == estimate_rule_confidence(ReasonOf(t))

\* the arguments of the record_feedback calls, but for the label
FeedbackCalls ==
    {[ticket |-> t, detection_reason |-> ReasonOf(t), confidence_score |-> ConfidenceOf(t)] :
        t \in StoreTickets}

\* INSERT OR REPLACE INTO feedback: the table has no unique column but its
\* AUTOINCREMENT id, so the statement always adds a row
InsertFeedback(d, t, detection_reason, label, confidence_score) ==
    [d EXCEPT
        !.feedback = Append(@, [id               |-> Len(@) + 1,
                                ticket_id        |-> t.ticket_id,
                                summary          |-> t.summary,
                                description      |-> t.description,
                                detection_reason |-> detection_reason,
                                user_feedback    |-> label,
                                confidence_score |-> confidence_score,
                                processed        |-> FALSE]),
        !.upserts = Append(@, 0)]

\* SELECT ... FROM feedback WHERE processed = FALSE, a table scan in rowid order
Unprocessed(d) == SelectSeq(d.feedback, LAMBDA r : ~r.processed)

\* a label that counts every feedback but false_positive as pixel-related
TrainingRow_missed_is_pixel(d, f) ==
    [id               |-> d.training_seq + 1,
     ticket_id        |-> f.ticket_id,
     summary          |-> f.summary,
     description      |-> f.description,
     is_pixel_related |-> (f.user_feedback # "false_positive"),
     features         |-> extract_features(f.summary, f.description)]

\* the example a feedback row is turned into
TrainingRow(d, f) ==
    [id               |-> d.training_seq + 1,
     ticket_id        |-> f.ticket_id,
     summary          |-> f.summary,
     description      |-> f.description,
     is_pixel_related |-> (f.user_feedback = "true_positive"),
     features         |-> extract_features(f.summary, f.description)]

\* a plain INSERT that keeps the earlier example of the ticket
UpsertTraining_keep_old(d, f) ==
    [d EXCEPT
        !.training_data = Append(@, TrainingRow(d, f)),
        !.training_seq = @ + 1,
        !.upserts[f.id] = @ + 1]

\* INSERT OR REPLACE INTO training_data: ticket_id is UNIQUE, so the earlier
\* example of the ticket is deleted and the new row takes a fresh id
UpsertTraining(d, f) ==
    [d EXCEPT
        !.training_data =
            Append(SelectSeq(@, LAMBDA r : r.ticket_id # f.ticket_id), TrainingRow(d, f)),
        !.training_seq = @ + 1,
        !.upserts[f.id] = @ + 1]

\* a pass that leaves the row unmarked
MarkProcessed_forgotten(d, id) == d

\* UPDATE feedback SET processed = TRUE WHERE id = ?
MarkProcessed(d, id) == [d EXCEPT !.feedback[id].processed = TRUE]

\* the body of the loop over the fetched rows
RECURSIVE ProcessRows(_, _)
ProcessRows(d, rows) ==
    IF rows = <<>> THEN d
    ELSE ProcessRows(MarkProcessed(UpsertTraining(d, Head(rows)), Head(rows).id),
                     Tail(rows))

process_feedback_to_training_data(d) == ProcessRows(d, Unprocessed(d))

record_feedback(d, t, detection_reason, label, confidence_score) ==
    process_feedback_to_training_data(
        InsertFeedback(d, t, detection_reason, label, confidence_score))

\* where a statement of the materialization pass lands: in the connection's open
\* transaction, the committed tables untouched until commit()
in_transaction(d, x) == [db |-> d, txn |-> x]
\* a connection in autocommit mode, every statement committed at once
autocommit(d, x) == [db |-> x, txn |-> x]
statement_effect(d, x) == in_transaction(d, x)

-----------------------------------------------------------------------------
(* Calls of the pure components *)

NoOut == [op |-> "none"]
StoreIdle ==
    /\ db = EmptyDb
    /\ txn = EmptyDb
    /\ pending = <<>>
    /\ spc = "idle"

\* no artifact on disk, nothing trained yet, the constructor has run and found
\* no model
NoFiles == [model |-> "absent", vectorizer |-> "absent"]
TrainerIdle == [pc |-> "idle", run |-> 0, died |-> FALSE]
LoaderReady ==
    [pc |-> "ready", read_model |-> "absent", read_vectorizer |-> "unread",
     vectorizer_on_disk |-> FALSE]
ArtifactIdle ==
    /\ files = NoFiles
    /\ model_performance = <<>>
    /\ clock = 0
    /\ trainer = TrainerIdle
    /\ loader = LoaderReady

\* no concurrent record_feedback call under way
NoWorker == [pc |-> "idle", pending |-> <<>>]
RaceIdle ==
    /\ workers = [p \in {1, 2} |-> NoWorker]
    /\ writer = 0

\* ContinuousPixelMonitor() as __init__ leaves it, run() not yet called
MonitorIdle ==
    /\ running = TRUE
    /\ paused = FALSE
    /\ pause_lock = "free"
    /\ main_pc = "start"
    /\ input_pc = "not started"
    /\ due = FALSE

ConcurrentIdle == RaceIdle /\ MonitorIdle

InitRules ==
    /\ \E t \in ExampleTickets \cup GeneratedTickets \cup ContextTickets :
          /\ summary = t.summary
          /\ description = t.description
    /\ model = "None"
    /\ vectorizer = "None"
    /\ ml_out = NoAnswer
    /\ pc = "ready"
    /\ out = NoOut
    /\ StoreIdle
    /\ ArtifactIdle
    /\ ConcurrentIdle

InitClassify ==
    /\ \E t \in ExampleTickets :
          /\ summary = t.summary
          /\ description = t.description
    /\ \/ model = "None" /\ vectorizer \in {"None", "run1"} /\ ml_out = NoAnswer
       \/ model = "run1" /\ vectorizer = "run1" /\ ml_out \in MLAnswers
    /\ pc = "ready"
    /\ out = NoOut
    /\ StoreIdle
    /\ ArtifactIdle
    /\ ConcurrentIdle

\* is_pixel_related_ticket(summary, description), as the monitors call it
RuleCheck ==
    /\ pc = "ready"
    /\ pc' = "done"
    /\ out' = [op |-> "is_pixel_related_ticket", raised |-> FALSE,
               result |-> is_pixel_related_ticket(summary, description)]
    /\ UNCHANGED <<summary, description, model, vectorizer, ml_out>>
    /\ UNCHANGED storeVars
    /\ UNCHANGED artifactVars
    /\ UNCHANGED concurrentVars

\* extract_features(summary, description)
ExtractFeatures ==
    /\ pc = "ready"
    /\ pc' = "done"
    /\ out' = IF concat_raises(description)
              THEN [op |-> "extract_features", raised |-> TRUE]
              ELSE [op |-> "extract_features", raised |-> FALSE,
                    result |-> extract_features(summary, description)]
    /\ UNCHANGED <<summary, description, model, vectorizer, ml_out>>
    /\ UNCHANGED storeVars
    /\ UNCHANGED artifactVars
    /\ UNCHANGED concurrentVars

\* enhanced_is_pixel_related_ticket(summary, description)
Classify ==
    /\ pc = "ready"
    /\ pc' = "done"
    /\ out' = IF concat_raises(description)
              THEN [op |-> "enhanced_is_pixel_related_ticket", raised |-> TRUE]
              ELSE [op |-> "enhanced_is_pixel_related_ticket", raised |-> FALSE,
                    result |-> enhanced_is_pixel_related_ticket(summary, description)]
    /\ UNCHANGED <<summary, description, model, vectorizer, ml_out>>
    /\ UNCHANGED storeVars
    /\ UNCHANGED artifactVars
    /\ UNCHANGED concurrentVars

\* hybrid_detection called with a rule result of the caller's choosing
HybridDetection ==
    /\ pc = "ready"
    /\ pc' = "done"
    /\ \E rule_based_result \in BOOLEAN, rule_confidence \in RuleConfidences :
          out' = IF concat_raises(description)
                 THEN [op |-> "hybrid_detection", raised |-> TRUE]
                 ELSE [op |-> "hybrid_detection", raised |-> FALSE,
                       rule_based_result |-> rule_based_result,
                       rule_confidence |-> rule_confidence,
                       result |-> hybrid_detection(summary, description,
                                                   rule_based_result, rule_confidence)]
    /\ UNCHANGED <<summary, description, model, vectorizer, ml_out>>
    /\ UNCHANGED storeVars
    /\ UNCHANGED artifactVars
    /\ UNCHANGED concurrentVars

\* extract_text_from_rich_format(description)
Normalize ==
    /\ pc = "ready"
    /\ pc' = "done"
    /\ out' = [op |-> "extract_text_from_rich_format", raised |-> FALSE,
               result |-> extract_text_from_rich_format(description)]
    /\ UNCHANGED <<summary, description, model, vectorizer, ml_out>>
    /\ UNCHANGED storeVars
    /\ UNCHANGED artifactVars
    /\ UNCHANGED concurrentVars

NextRules == RuleCheck \/ ExtractFeatures \/ Normalize
SpecRules == InitRules /\ [][NextRules]_vars

NextClassify == Classify \/ HybridDetection
SpecClassify == InitClassify /\ [][NextClassify]_vars

-----------------------------------------------------------------------------
(* Claims about the Rule Engine and the Feature Extractor (SpecRules) *)

RuleReturned == out.op = "is_pixel_related_ticket"
RuleText == combined_text(summary, description)

\* the verdict the claim expects for a text that holds an exclusion term: False,
\* with the first exclusion of the list that occurs in the text as the reason
ExcludedByFirstTerm ==
    \E i \in 1..Len(exclusions) :
        /\ Contains(exclusions[i], RuleText)
        /\ \A j \in 1..(i - 1) : ~Contains(exclusions[j], RuleText)
        /\ out.result = Verdict(FALSE, "excluded:" \o exclusions[i])

\* C1 as stated: whenever the combined lowercase text of title and body holds an
\* exclusion term, the rule engine answers (False, 'excluded:<first such term>'),
\* whatever else the text holds.
C1_ExclusionsAlwaysWin ==
    (RuleReturned /\ AnyIn(exclusions, RuleText)) => ExcludedByFirstTerm

\* C1 amended: for a ticket with a non-empty title, whenever the combined lowercase
\* text holds an exclusion term the rule engine answers (False, 'excluded:<term>')
\* with the first exclusion in list order, also when a high-confidence phrase or
\* 'pixel' is present; a ticket with an empty title is answered (False,
\* 'no_summary') before the exclusions are looked at.
C1_ExclusionPrecedence ==
    /\ (RuleReturned /\ summary # "" /\ AnyIn(exclusions, RuleText))
          => ExcludedByFirstTerm
    /\ (RuleReturned /\ summary = "") => out.result = Verdict(FALSE, "no_summary")

\* a text with 'user sync', a high-confidence phrase and 'pixel' is excluded
C1_Witness ==
    /\ RuleReturned
    /\ summary # ""
    /\ Contains("user sync pixel", RuleText)
    /\ AnyIn(high_confidence_keywords, RuleText)
    /\ out.result = Verdict(FALSE, "excluded:user sync")

FeatureCounts ==
    {"length", "word_count", "pixel_with_context", "technical_terms",
     "has_exclusions", "action_words"}
FeatureFlags ==
    {"has_pixel", "has_tracking", "has_conversion", "has_validation", "has_firing",
     "dsp_related", "web_related", "campaign_related"}

PS9998 ==
    /\ RuleReturned
    /\ summary = PS9998_summary
    /\ description = PS9998_description

\* C10 as stated: the PS-9998 ticket hits no exclusion, no high-confidence phrase
\* and no combination pattern, and the rule engine answers (False, 'no_match').
C10_PS9998NoMatch ==
    PS9998 => out.result = Verdict(FALSE, "no_match")

\* C10 amended: the PS-9998 ticket hits no exclusion and no high-confidence phrase
\* and does not mention 'pixel', but the tracking+action combination fires on
\* substrings ('tag' inside 'stage', 'setup' inside 'in-setup'), so the rule engine
\* answers (True, 'medium:tracking_action').
C10_PS9998TrackingAction ==
    PS9998 =>
        /\ ~AnyIn(exclusions, RuleText)
        /\ ~AnyIn(high_confidence_keywords, RuleText)
        /\ ~Contains("pixel", RuleText)
        /\ Contains("stage", RuleText) /\ Contains("in-setup", RuleText)
        /\ out.result = Verdict(TRUE, "medium:tracking_action")

C10_Witness == PS9998 /\ out.result.verdict

-----------------------------------------------------------------------------
(* Claims about the classify path (SpecClassify) *)

Classified == out.op = "enhanced_is_pixel_related_ticket" /\ ~out.raised
Fused == out.op \in {"enhanced_is_pixel_related_ticket", "hybrid_detection"} /\ ~out.raised

\* what the rule engine alone says about the ticket
RuleVerdict == is_pixel_related_ticket(summary, description)
FinalVerdict ==
    IF out.op = "hybrid_detection" THEN out.result.final_prediction
    ELSE out.result.final_result
CombinedConfidence ==
    IF out.op = "hybrid_detection" THEN out.result.combined_score
    ELSE out.result.combined_confidence

FusionEqualsRule ==
    /\ out.result.final_result = RuleVerdict.verdict
    /\ out.result.rule_reason = RuleVerdict.reason
    /\ out.result.combined_confidence = estimate_rule_confidence(RuleVerdict.reason)

\* C2 as stated: with no model loaded the fused decision is the rule engine's own
\* verdict and confidence, and the method reported is "rule_only".
C2_RuleOnly ==
    (Classified /\ model = "None") =>
        /\ FusionEqualsRule
        /\ out.result.analysis.method = "rule_only"

\* C2 amended: with no model loaded the fused decision is the rule engine's own
\* verdict and confidence, and the method reported is "rule_based_only".
C2_RuleBasedOnly ==
    (Classified /\ model = "None") =>
        /\ FusionEqualsRule
        /\ out.result.analysis.method = "rule_based_only"

\* a positive rule verdict passed through unchanged without a model
C2_Witness ==
    /\ Classified
    /\ model = "None"
    /\ out.result.final_result
    /\ out.result.combined_confidence = 600
    /\ out.result.analysis.method = "rule_based_only"

\* C3: the combined confidence of the fusion lies in [0,1], and with a model loaded
\* the final verdict is True exactly when the combined confidence exceeds 0.5.
C3_ConfidenceBounds ==
    Fused =>
        /\ CombinedConfidence \in 0..1000
        /\ (model # "None") => (FinalVerdict <=> CombinedConfidence > 500)

\* the boundary: a combined confidence of exactly 0.5 gives the verdict False
C3_Witness ==
    /\ Fused
    /\ model # "None"
    /\ CombinedConfidence = 500
    /\ ~FinalVerdict

\* C4 as stated: with no model loaded, a ticket whose text matches a
\* high-confidence phrase is classified True with a confidence between 0.85 and
\* 0.95 (0.90 for 'conversion pixel').
C4_HighConfidenceBand ==
    (Classified /\ model = "None" /\ SubSeq(out.result.rule_reason, 1, 5) = "high:") =>
        /\ out.result.final_result
        /\ out.result.combined_confidence \in 850..950
        /\ (out.result.rule_reason = "high:conversion pixel")
              => out.result.combined_confidence = 900

-----------------------------------------------------------------------------
(* The learning system in use: whole calls (Spec) *)

ClassifyIdle ==
    /\ summary = ""
    /\ description = None
    /\ model = "None"
    /\ vectorizer = "None"
    /\ ml_out = NoAnswer
    /\ pc = "ready"
    /\ out = NoOut

Init == ClassifyIdle /\ StoreIdle /\ ArtifactIdle /\ ConcurrentIdle

\* record_feedback(...), the insert and the materialization pass it triggers
RecordFeedback ==
    /\ spc = "idle"
    /\ Len(db.feedback) < MaxFeedback
    /\ \E c \in FeedbackCalls, label \in user_feedbacks :
          db' = record_feedback(db, c.ticket, c.detection_reason, label,
                                c.confidence_score)
    /\ txn' = db'
    /\ UNCHANGED <<pending, spc>>
    /\ UNCHANGED classifyVars
    /\ UNCHANGED artifactVars
    /\ UNCHANGED concurrentVars

\* process_feedback_to_training_data() called on its own
ProcessFeedback ==
    /\ spc = "idle"
    /\ db' = process_feedback_to_training_data(db)
    /\ txn' = db'
    /\ UNCHANGED <<pending, spc>>
    /\ UNCHANGED classifyVars
    /\ UNCHANGED artifactVars
    /\ UNCHANGED concurrentVars

Next == RecordFeedback \/ ProcessFeedback
Spec == Init /\ [][Next]_vars

-----------------------------------------------------------------------------
(* record_feedback statement by statement, with crashes (SpecCrash) *)

\* INSERT OR REPLACE INTO feedback; conn.commit()
InsertCommitted ==
    /\ spc = "idle"
    /\ Len(db.feedback) < MaxFeedback
    /\ \E c \in FeedbackCalls, label \in user_feedbacks :
          db' = InsertFeedback(db, c.ticket, c.detection_reason, label,
                               c.confidence_score)
    /\ txn' = db'
    /\ spc' = "select"
    /\ UNCHANGED pending
    /\ UNCHANGED classifyVars
    /\ UNCHANGED artifactVars
    /\ UNCHANGED concurrentVars

\* unprocessed = cursor.fetchall()
SelectUnprocessed ==
    /\ spc = "select"
    /\ pending' = Unprocessed(db)
    /\ txn' = db
    /\ spc' = "loop"
    /\ UNCHANGED db
    /\ UNCHANGED classifyVars
    /\ UNCHANGED artifactVars
    /\ UNCHANGED concurrentVars

\* INSERT OR REPLACE INTO training_data for the next fetched row
UpsertRow ==
    /\ spc = "loop"
    /\ pending # <<>>
    /\ LET e == statement_effect(db, UpsertTraining(txn, Head(pending)))
       IN  db' = e.db /\ txn' = e.txn
    /\ spc' = "mark"
    /\ UNCHANGED pending
    /\ UNCHANGED classifyVars
    /\ UNCHANGED artifactVars
    /\ UNCHANGED concurrentVars

\* UPDATE feedback SET processed = TRUE for that row
MarkRow ==
    /\ spc = "mark"
    /\ LET e == statement_effect(db, MarkProcessed(txn, Head(pending).id))
       IN  db' = e.db /\ txn' = e.txn
    /\ pending' = Tail(pending)
    /\ spc' = "loop"
    /\ UNCHANGED classifyVars
    /\ UNCHANGED artifactVars
    /\ UNCHANGED concurrentVars

\* conn.commit() after the loop
CommitPass ==
    /\ spc = "loop"
    /\ pending = <<>>
    /\ db' = txn
    /\ spc' = "idle"
    /\ UNCHANGED <<txn, pending>>
    /\ UNCHANGED classifyVars
    /\ UNCHANGED artifactVars
    /\ UNCHANGED concurrentVars

\* the process dies: the open transaction is rolled back, the committed tables stay
Crash ==
    /\ spc # "idle"
    /\ txn' = db
    /\ pending' = <<>>
    /\ spc' = "idle"
    /\ UNCHANGED db
    /\ UNCHANGED classifyVars
    /\ UNCHANGED artifactVars
    /\ UNCHANGED concurrentVars

NextCrash ==
    InsertCommitted \/ SelectUnprocessed \/ UpsertRow \/ MarkRow \/ CommitPass \/ Crash
SpecCrash == Init /\ [][NextCrash]_vars

-----------------------------------------------------------------------------
(* Claims about the feedback store (Spec, SpecCrash) *)

FeedbackIds == 1..Len(db.feedback)
TrainingIds == 1..Len(db.training_data)

\* the feedback row recorded last for a ticket
LatestFeedback(tid) ==
    LET rows == {i \in FeedbackIds : db.feedback[i].ticket_id = tid}
    IN  db.feedback[CHOOSE i \in rows : \A j \in rows : j <= i]

\* C5: training_data holds at most one example per ticket_id, one for every ticket
\* that has feedback, and its label is that of the feedback recorded last for the
\* ticket.
C5_OneExampleLatestLabel ==
    /\ \A i, j \in TrainingIds :
          db.training_data[i].ticket_id = db.training_data[j].ticket_id => i = j
    /\ \A i \in FeedbackIds :
          \E j \in TrainingIds :
             /\ db.training_data[j].ticket_id = db.feedback[i].ticket_id
             /\ db.training_data[j].is_pixel_related
                   = (LatestFeedback(db.feedback[i].ticket_id).user_feedback
                        = "true_positive")

\* a ticket reviewed twice, true_positive first and false_positive after
C5_Witness ==
    /\ Len(db.feedback) = 2
    /\ db.feedback[1].ticket_id = db.feedback[2].ticket_id
    /\ db.feedback[1].user_feedback = "true_positive"
    /\ db.feedback[2].user_feedback = "false_positive"
    /\ Len(db.training_data) = 1
    /\ ~db.training_data[1].is_pixel_related

\* C6 as stated: the feedback table holds one row per ticket_id, the later
\* record_feedback call overwriting the row of the earlier one.
C6_OneFeedbackRowPerTicket ==
    \A i, j \in FeedbackIds :
        db.feedback[i].ticket_id = db.feedback[j].ticket_id => i = j

PendingIds == {pending[k].id : k \in 1..Len(pending)}

\* C7: when the materialization pass of a record_feedback call commits, every
\* feedback row is marked processed and has been materialized exactly once; and a
\* row that is marked processed stays so, is never fetched by a later pass and is
\* never materialized again.
C7_MaterializedOnce ==
    [][ /\ CommitPass =>
              \A i \in 1..Len(db'.feedback) :
                  db'.feedback[i].processed /\ db'.upserts[i] = 1
        /\ \A i \in FeedbackIds :
              db.feedback[i].processed =>
                  /\ db'.feedback[i].processed
                  /\ db'.upserts[i] = db.upserts[i]
                  /\ txn'.upserts[i] = db.upserts[i]
                  /\ i \notin PendingIds'
      ]_vars

\* a later pass at work on a new row while an earlier row is already processed
C7_Witness ==
    /\ spc = "mark"
    /\ Len(db.feedback) >= 2
    /\ db.feedback[1].processed
    /\ db.upserts[1] = 1
    /\ db.feedback[1].ticket_id = Head(pending).ticket_id

\* C8: in the committed tables no feedback row is half-processed: it is marked
\* processed exactly when its upsert is committed too, and then its ticket has a
\* training example.
C8_NoHalfProcessedRow ==
    \A i \in FeedbackIds :
        /\ db.feedback[i].processed <=> db.upserts[i] >= 1
        /\ db.feedback[i].processed =>
              \E j \in TrainingIds :
                  db.training_data[j].ticket_id = db.feedback[i].ticket_id

\* a crash in the middle of a pass over two rows, the first of them already
\* upserted and marked inside the transaction that was lost
C8_Witness ==
    /\ spc = "idle"
    /\ Len(db.feedback) >= 2
    /\ \A i \in FeedbackIds : ~db.feedback[i].processed /\ db.upserts[i] = 0
    /\ db.training_data = <<>>

-----------------------------------------------------------------------------
(* Statistical Model: training, the artifact files, the performance log *)

\* more training examples than this are not added in one run
MaxExamples == 7
\* train_ml_model calls that get past the sample-count check
MaxTrainings == 2
\* seconds that pass in one run
MaxClock == 1

\* min_samples when the caller gives none
default_min_samples == 20
\* min_samples as callers pass it: the smallest set sklearn can split, the
\* bootstrap script's 10, the default
MinSamples == {6, 10, default_min_samples}

\* the name of the k-th fit; fits are deterministic (random_state=42), a run is
\* told from another by the data it saw
RunName(k) == "run" \o ToString(k)

\* two of the bootstrap script's examples, one of each class
PixelExample ==
    [summary     |-> "Ministry of Supply Pixel Validation Request",
     description |-> Str("Need to validate that conversion pixels are firing correctly on the checkout page"),
     is_pixel    |-> TRUE]
NonPixelExample ==
    [summary     |-> "Grant access to advertising platform",
     description |-> Str("New team member needs access to DSP platform for campaign management"),
     is_pixel    |-> FALSE]
ExampleFeatures ==
    [b \in BOOLEAN |->
        IF b THEN extract_features(PixelExample.summary, PixelExample.description)
        ELSE extract_features(NonPixelExample.summary, NonPixelExample.description)]

\* the bootstrap loop body: INSERT OR REPLACE INTO training_data for example k
InsertExample(d, k, is_pixel) ==
    LET e == IF is_pixel THEN PixelExample ELSE NonPixelExample
        tid == "PS-EXAMPLE-" \o ToString(k)
    IN  [d EXCEPT
            !.training_data =
                Append(SelectSeq(@, LAMBDA r : r.ticket_id # tid),
                       [id               |-> d.training_seq + 1,
                        ticket_id        |-> tid,
                        summary          |-> e.summary,
                        description      |-> e.description,
                        is_pixel_related |-> e.is_pixel,
                        features         |-> ExampleFeatures[is_pixel]]),
            !.training_seq = @ + 1]

\* the labels column of the rows train_ml_model fetches
class_size(d, c) ==
    Cardinality({i \in 1..Len(d.training_data) : d.training_data[i].is_pixel_related = c})
n_classes(d) == Cardinality({c \in BOOLEAN : class_size(d, c) > 0})
\* test_size=0.2: the held-out part is ceil(0.2 * n) rows
n_test(n) == (n + 4) \div 5

\* train_test_split(..., stratify=labels) raises ValueError when a class has a
\* single member or a part is smaller than the number of classes
split_raises(d) ==
    LET n == Len(d.training_data)
    IN  \/ \E c \in BOOLEAN : class_size(d, c) = 1
        \/ n_test(n) < n_classes(d)
        \/ n - n_test(n) < n_classes(d)

\* LogisticRegression.fit raises ValueError on labels of a single class
fit_raises(d) == n_classes(d) < 2

\* the learning system as train_ml_model sees it
Self ==
    [model |-> model, vectorizer |-> vectorizer, files |-> files,
     model_performance |-> model_performance, db |-> db, clock |-> clock,
     run |-> trainer.run]

\* INSERT INTO model_performance; training_date defaults to CURRENT_TIMESTAMP
\* the precision, recall and f1 of a run's held-out evaluation are carried as the
\* run's name
log_model_performance(self, training_samples, scores) ==
    Append(self.model_performance,
           [id |-> Len(self.model_performance) + 1,
            training_samples |-> training_samples,
            scores |-> scores,
            training_date |-> self.clock])

TrainOutcome(self, raised, result) == [self |-> self, raised |-> raised, result |-> result]

\* a training that drops the loaded model when it finds too few samples
train_ml_model_forgetful(self, min_samples) ==
    LET n == Len(self.db.training_data)
        name == RunName(self.run + 1)
    IN  IF n < min_samples
        THEN TrainOutcome([self EXCEPT !.model = "None", !.vectorizer = "None"],
                          FALSE, FALSE)
        ELSE IF split_raises(self.db)
        THEN TrainOutcome([self EXCEPT !.run = @ + 1], TRUE, FALSE)
        ELSE IF fit_raises(self.db)
        THEN TrainOutcome([self EXCEPT !.run = @ + 1, !.vectorizer = name,
                                       !.model = "unfitted"], TRUE, FALSE)
        ELSE TrainOutcome(
                [self EXCEPT !.run = @ + 1, !.vectorizer = name, !.model = name,
                             !.files = [model |-> name, vectorizer |-> name],
                             !.model_performance = log_model_performance(self, n, name)],
                FALSE, TRUE)

\* train_ml_model(min_samples): False below min_samples and nothing touched; an
\* exception of the split before anything is assigned; an exception of fit after
\* self.vectorizer and the unfitted self.model are assigned; otherwise both
\* objects fitted, both files written, one row logged, True
train_ml_model(self, min_samples) ==
    LET n == Len(self.db.training_data)
        name == RunName(self.run + 1)
    IN  IF n < min_samples
        THEN TrainOutcome(self, FALSE, FALSE)
        ELSE IF split_raises(self.db)
        THEN TrainOutcome([self EXCEPT !.run = @ + 1], TRUE, FALSE)
        ELSE IF fit_raises(self.db)
        THEN TrainOutcome([self EXCEPT !.run = @ + 1, !.vectorizer = name,
                                       !.model = "unfitted"], TRUE, FALSE)
        ELSE TrainOutcome(
                [self EXCEPT !.run = @ + 1, !.vectorizer = name, !.model = name,
                             !.files = [model |-> name, vectorizer |-> name],
                             !.model_performance = log_model_performance(self, n, name)],
                FALSE, TRUE)

\* a ratio as Python computes it, in thousandths, 0 when the denominator is 0
ratio(a, b) == IF b > 0 THEN (1000 * a) \div b ELSE 0

feedback_count(d, label) ==
    Cardinality({i \in 1..Len(d.feedback) : d.feedback[i].user_feedback = label})

\* SELECT ... FROM model_performance ORDER BY training_date DESC LIMIT 1: a row
\* of the greatest training_date; which one among equal dates SQL leaves open
\* (sqlite 3.40 returns the one of lowest rowid)
LatestRows(mp) ==
    {i \in 1..Len(mp) : \A j \in 1..Len(mp) : mp[j].training_date <= mp[i].training_date}

\* get_performance_metrics() with model_metrics the fetched row, 0 for no row
get_performance_metrics(d, mp, i) ==
    LET tp == feedback_count(d, "true_positive")
        fp == feedback_count(d, "false_positive")
        fn == feedback_count(d, "false_negative")
    IN  [feedback_based |->
            [true_positives |-> tp, false_positives |-> fp, false_negatives |-> fn,
             precision |-> ratio(tp, tp + fp),
             recall    |-> ratio(tp, tp + fn),
             f1_score  |-> ratio(2 * tp, 2 * tp + fp + fn)],
         model_based |->
            [scores |-> IF i = 0 THEN "None" ELSE mp[i].scores,
             training_samples |-> IF i = 0 THEN 0 ELSE mp[i].training_samples],
         total_feedback |-> tp + fp + fn]

-----------------------------------------------------------------------------
(* Bootstrapping, training and metrics, whole calls (SpecTrain) *)

\* the bootstrap script adds the next example to training_data
AddExample ==
    /\ trainer.pc = "idle"
    /\ Len(db.training_data) < MaxExamples
    /\ \E is_pixel \in BOOLEAN :
          db' = InsertExample(db, Len(db.training_data) + 1, is_pixel)
    /\ txn' = db'
    /\ UNCHANGED <<pending, spc>>
    /\ UNCHANGED classifyVars
    /\ UNCHANGED artifactVars
    /\ UNCHANGED concurrentVars

\* train_ml_model(min_samples)
Train ==
    /\ trainer.pc = "idle"
    /\ trainer.run < MaxTrainings
    /\ \E min_samples \in MinSamples :
          LET r == train_ml_model(Self, min_samples)
          IN  /\ model' = r.self.model
              /\ vectorizer' = r.self.vectorizer
              /\ files' = r.self.files
              /\ model_performance' = r.self.model_performance
              /\ trainer' = [trainer EXCEPT !.run = r.self.run]
              /\ out' = [op |-> "train_ml_model", min_samples |-> min_samples,
                         raised |-> r.raised, result |-> r.result]
    /\ UNCHANGED <<summary, description, ml_out, pc>>
    /\ UNCHANGED storeVars
    /\ UNCHANGED <<clock, loader>>
    /\ UNCHANGED concurrentVars

\* a second passes
Tick ==
    /\ clock < MaxClock
    /\ clock' = clock + 1
    /\ UNCHANGED classifyVars
    /\ UNCHANGED storeVars
    /\ UNCHANGED <<files, model_performance, trainer, loader>>
    /\ UNCHANGED concurrentVars

\* get_performance_metrics()
GetMetrics ==
    /\ trainer.pc = "idle"
    /\ \E i \in (IF model_performance = <<>> THEN {0} ELSE LatestRows(model_performance)) :
          out' = [op |-> "get_performance_metrics", raised |-> FALSE,
                  result |-> get_performance_metrics(db, model_performance, i)]
    /\ UNCHANGED <<summary, description, model, vectorizer, ml_out, pc>>
    /\ UNCHANGED storeVars
    /\ UNCHANGED artifactVars
    /\ UNCHANGED concurrentVars

\* the answers a fitted model gives in these runs
TrainedAnswers ==
    {[prediction |-> TRUE, confidence |-> 900], [prediction |-> FALSE, confidence |-> 600]}

\* predict_ml(summary, description) on the pair in memory: (False, 0.0) when one
\* of the two is None; otherwise vectorizer.transform and model.predict, which
\* raises NotFittedError on a LogisticRegression that was never fitted
PredictML ==
    /\ trainer.pc = "idle"
    /\ \/ /\ model = "None" \/ vectorizer = "None"
          /\ out' = [op |-> "predict_ml", raised |-> FALSE, result |-> NoAnswer]
       \/ /\ model # "None" /\ vectorizer # "None"
          /\ model = "unfitted"
          /\ out' = [op |-> "predict_ml", raised |-> TRUE]
       \/ /\ model # "None" /\ vectorizer # "None"
          /\ model # "unfitted"
          /\ \E a \in TrainedAnswers :
                out' = [op |-> "predict_ml", raised |-> FALSE, result |-> a]
    /\ UNCHANGED <<summary, description, model, vectorizer, ml_out, pc>>
    /\ UNCHANGED storeVars
    /\ UNCHANGED artifactVars
    /\ UNCHANGED concurrentVars

NextTrain == AddExample \/ Train \/ Tick \/ GetMetrics \/ PredictML
SpecTrain == Init /\ [][NextTrain]_vars

-----------------------------------------------------------------------------
(* Claims about training and metrics (SpecTrain) *)

\* C11: a train_ml_model call that finds fewer training examples than its
\* min_samples (20 when the caller gives none) returns False without raising and
\* leaves the two artifact files, the in-memory model and vectorizer and the
\* model_performance table as they were.
C11_InsufficientDataLeavesAllUnchanged ==
    [][ \A min_samples \in MinSamples :
          (Train /\ out'.min_samples = min_samples
                 /\ Len(db.training_data) < min_samples) =>
             /\ ~out'.raised
             /\ out'.result = FALSE
             /\ files' = files
             /\ model' = model
             /\ vectorizer' = vectorizer
             /\ model_performance' = model_performance
      ]_vars

\* a model is trained and saved, then a call with the default min_samples fails
\* and the model is still there
C11_Witness ==
    /\ out.op = "train_ml_model"
    /\ out.min_samples = default_min_samples
    /\ Len(db.training_data) < default_min_samples
    /\ out.result = FALSE
    /\ model = "run1"
    /\ vectorizer = "run1"
    /\ files = [model |-> "run1", vectorizer |-> "run1"]
    /\ Len(model_performance) = 1

\* C17 as stated: get_performance_metrics reports as model_based.training_samples
\* the sample count of the training run that completed last.
C17_MetricsReflectLatestRun ==
    (out.op = "get_performance_metrics" /\ model_performance # <<>>) =>
        out.result.model_based.training_samples
            = model_performance[Len(model_performance)].training_samples

-----------------------------------------------------------------------------
(* The artifact files between a training process and a starting monitor     *)
(* (SpecArtifact): train_ml_model statement by statement in one process,    *)
(* the constructor's load_or_create_model and a classification in another   *)

\* a training set the bootstrap script left: MaxExamples rows, classes alternating
RECURSIVE Bootstrapped(_)
Bootstrapped(n) ==
    IF n = 0 THEN EmptyDb ELSE InsertExample(Bootstrapped(n - 1), n, n % 2 = 1)

\* what a file holds: nothing ("absent"), the whole pickle of a run, or the
\* beginning of one ("partial": opened for writing and not yet closed, or left so
\* by a writer that died)
Readable(content) == content \notin {"absent", "partial", "unread"}

\* the tickets the starting monitor classifies
ArtifactTickets ==
    { Ticket("Test pixel validation issue", Str("Testing enhanced detection")),
      Ticket(PS9998_summary, None) }

InitArtifact ==
    /\ \E t \in ArtifactTickets :
          /\ summary = t.summary
          /\ description = t.description
    /\ model = "None"
    /\ vectorizer = "None"
    /\ ml_out \in {[prediction |-> TRUE, confidence |-> 900],
                   [prediction |-> FALSE, confidence |-> 600]}
    /\ pc = "ready"
    /\ out = NoOut
    /\ db = Bootstrapped(MaxExamples)
    /\ txn = db
    /\ pending = <<>>
    /\ spc = "idle"
    /\ ArtifactIdle
    /\ ConcurrentIdle

\* train_ml_model up to the evaluation: the sample check and the fits pass
TrainBegin ==
    /\ trainer.pc = "idle"
    /\ trainer.run < MaxTrainings
    /\ \E min_samples \in MinSamples :
          /\ Len(db.training_data) >= min_samples
          /\ ~split_raises(db)
          /\ ~fit_raises(db)
    /\ trainer' = [trainer EXCEPT !.pc = "open_model", !.run = @ + 1]
    /\ UNCHANGED classifyVars
    /\ UNCHANGED storeVars
    /\ UNCHANGED <<files, model_performance, clock, loader>>
    /\ UNCHANGED concurrentVars

\* the file written in place: truncated by the open, whole at the close
file_write(f, name, step, content) ==
    [f EXCEPT ![name] = IF step = "open" THEN "partial" ELSE content]

\* with open(self.model_path, 'wb') as f: the file is truncated
OpenModelFile ==
    /\ trainer.pc = "open_model"
    /\ files' = file_write(files, "model", "open", RunName(trainer.run))
    /\ trainer' = [trainer EXCEPT !.pc = "dump_model"]
    /\ UNCHANGED classifyVars
    /\ UNCHANGED storeVars
    /\ UNCHANGED <<model_performance, clock, loader>>
    /\ UNCHANGED concurrentVars

\* pickle.dump(self.model, f) and the close
DumpModel ==
    /\ trainer.pc = "dump_model"
    /\ files' = file_write(files, "model", "close", RunName(trainer.run))
    /\ trainer' = [trainer EXCEPT !.pc = "open_vectorizer"]
    /\ UNCHANGED classifyVars
    /\ UNCHANGED storeVars
    /\ UNCHANGED <<model_performance, clock, loader>>
    /\ UNCHANGED concurrentVars

\* with open(self.vectorizer_path, 'wb') as f
OpenVectorizerFile ==
    /\ trainer.pc = "open_vectorizer"
    /\ files' = file_write(files, "vectorizer", "open", RunName(trainer.run))
    /\ trainer' = [trainer EXCEPT !.pc = "dump_vectorizer"]
    /\ UNCHANGED classifyVars
    /\ UNCHANGED storeVars
    /\ UNCHANGED <<model_performance, clock, loader>>
    /\ UNCHANGED concurrentVars

\* pickle.dump(self.vectorizer, f) and the close
DumpVectorizer ==
    /\ trainer.pc = "dump_vectorizer"
    /\ files' = file_write(files, "vectorizer", "close", RunName(trainer.run))
    /\ trainer' = [trainer EXCEPT !.pc = "log"]
    /\ UNCHANGED classifyVars
    /\ UNCHANGED storeVars
    /\ UNCHANGED <<model_performance, clock, loader>>
    /\ UNCHANGED concurrentVars

\* self.log_model_performance(len(data), ...); return True
LogPerformance ==
    /\ trainer.pc = "log"
    /\ model_performance' =
          log_model_performance(Self, Len(db.training_data), RunName(trainer.run))
    /\ trainer' = [trainer EXCEPT !.pc = "idle"]
    /\ UNCHANGED classifyVars
    /\ UNCHANGED storeVars
    /\ UNCHANGED <<files, clock, loader>>
    /\ UNCHANGED concurrentVars

\* the training process dies where it is; the files stay as they are, and a new
\* process can train again
TrainerDies ==
    /\ trainer.pc # "idle"
    /\ trainer' = [trainer EXCEPT !.pc = "idle", !.died = TRUE]
    /\ UNCHANGED classifyVars
    /\ UNCHANGED storeVars
    /\ UNCHANGED <<files, model_performance, clock, loader>>
    /\ UNCHANGED concurrentVars

\* a monitor process starts: PixelDetectionLearningSystem() up to the first open
Construct ==
    /\ loader.pc \in {"ready", "raised"}
    /\ loader' = [pc |-> "open_model", read_model |-> "unread",
                  read_vectorizer |-> "unread", vectorizer_on_disk |-> FALSE]
    /\ model' = "None"
    /\ vectorizer' = "None"
    /\ pc' = "ready"
    /\ out' = NoOut
    /\ UNCHANGED <<summary, description, ml_out>>
    /\ UNCHANGED storeVars
    /\ UNCHANGED <<files, model_performance, clock, trainer>>
    /\ UNCHANGED concurrentVars

\* open(self.model_path, 'rb'); self.model = pickle.load(f).  A missing file is
\* the FileNotFoundError the method catches; a file that does not hold a whole
\* pickle raises UnpicklingError or EOFError, which it does not catch
LoadModel ==
    /\ loader.pc = "open_model"
    /\ loader' = [loader EXCEPT
                    !.read_model = files.model,
                    !.vectorizer_on_disk = (files.vectorizer # "absent"),
                    !.pc = CASE files.model = "absent"  -> "ready"
                             [] files.model = "partial" -> "raised"
                             [] OTHER                   -> "open_vectorizer"]
    /\ model' = IF Readable(files.model) THEN files.model ELSE "None"
    /\ UNCHANGED <<summary, description, vectorizer, ml_out, pc, out>>
    /\ UNCHANGED storeVars
    /\ UNCHANGED <<files, model_performance, clock, trainer>>
    /\ UNCHANGED concurrentVars

\* open(self.vectorizer_path, 'rb'); self.vectorizer = pickle.load(f)
LoadVectorizer ==
    /\ loader.pc = "open_vectorizer"
    /\ loader' = [loader EXCEPT
                    !.read_vectorizer = files.vectorizer,
                    !.pc = IF files.vectorizer = "partial" THEN "raised" ELSE "ready"]
    /\ model' = IF files.vectorizer = "absent" THEN "None" ELSE model
    /\ vectorizer' = IF Readable(files.vectorizer) THEN files.vectorizer ELSE "None"
    /\ UNCHANGED <<summary, description, ml_out, pc, out>>
    /\ UNCHANGED storeVars
    /\ UNCHANGED <<files, model_performance, clock, trainer>>
    /\ UNCHANGED concurrentVars

\* a classification that logs its verdict in the feedback table
ClassifyLoaded_recording ==
    /\ loader.pc = "ready"
    /\ pc = "ready"
    /\ pc' = "done"
    /\ out' = IF concat_raises(description)
              THEN [op |-> "enhanced_is_pixel_related_ticket", raised |-> TRUE]
              ELSE [op |-> "enhanced_is_pixel_related_ticket", raised |-> FALSE,
                    result |-> enhanced_is_pixel_related_ticket(summary, description)]
    /\ db' = InsertFeedback(db, [ticket_id |-> "PS-0", summary |-> summary,
                                 description |-> description],
                            "no_match", "false_positive", 0)
    /\ UNCHANGED <<summary, description, model, vectorizer, ml_out>>
    /\ UNCHANGED <<txn, pending, spc>>
    /\ UNCHANGED artifactVars
    /\ UNCHANGED concurrentVars

\* enhanced_is_pixel_related_ticket in the started monitor.  A model fed by the
\* vectorizer of another run gets vectors of another vocabulary: predict raises
\* ValueError when the widths differ and answers anything when they agree
ClassifyLoaded ==
    /\ loader.pc = "ready"
    /\ pc = "ready"
    /\ pc' = "done"
    /\ \/ out' = IF concat_raises(description)
                 THEN [op |-> "enhanced_is_pixel_related_ticket", raised |-> TRUE]
                 ELSE [op |-> "enhanced_is_pixel_related_ticket", raised |-> FALSE,
                       result |-> enhanced_is_pixel_related_ticket(summary, description)]
       \/ /\ model # "None" /\ vectorizer # "None" /\ model # vectorizer
          /\ out' = [op |-> "enhanced_is_pixel_related_ticket", raised |-> TRUE]
    /\ UNCHANGED <<summary, description, model, vectorizer, ml_out>>
    /\ UNCHANGED storeVars
    /\ UNCHANGED artifactVars
    /\ UNCHANGED concurrentVars

NextArtifact ==
    \/ TrainBegin \/ OpenModelFile \/ DumpModel \/ OpenVectorizerFile
    \/ DumpVectorizer \/ LogPerformance \/ TrainerDies
    \/ Construct \/ LoadModel \/ LoadVectorizer \/ ClassifyLoaded
SpecArtifact == InitArtifact /\ [][NextArtifact]_vars

-----------------------------------------------------------------------------
(* Claims about the artifact files (SpecArtifact) *)

LoadEnded == loader.pc \in {"ready", "raised"}

\* the load met a file that does not hold a whole pickle, or one file of the
\* pair without the other
DamagedArtifact ==
    \/ loader.read_model = "partial"
    \/ loader.read_vectorizer = "partial"
    \/ Readable(loader.read_model) /\ loader.read_vectorizer = "absent"
    \/ loader.read_model = "absent" /\ loader.vectorizer_on_disk

\* C12 as stated: when the model or vectorizer file is unreadable, or one is there
\* without the other, the constructor does not raise and ends with no model
\* loaded, and a later classification does not raise and is rule-only.
C12_DamagedArtifactFallsBack ==
    /\ (LoadEnded /\ DamagedArtifact) =>
          /\ loader.pc = "ready"
          /\ model = "None"
          /\ vectorizer = "None"
    /\ (DamagedArtifact /\ out.op = "enhanced_is_pixel_related_ticket") =>
          /\ ~out.raised
          /\ out.result.analysis.method = "rule_based_only"

\* C15 as stated: while no training process has died, a load that has ended,
\* whatever training ran beside it, has returned with a model and a vectorizer
\* of the same training run (or with none of the two), never with an exception
\* from a half-written file nor with the model of one run and the vectorizer of
\* another.
C15_LoaderSeesOneRun ==
    (LoadEnded /\ ~trainer.died) =>
        /\ loader.pc = "ready"
        /\ model = vectorizer

-----------------------------------------------------------------------------
(* Claims about bodies of any shape (SpecClassify, SpecRules) *)

\* C13 as stated: whatever the shape of the body (missing, empty, a string, a
\* structured document), enhanced_is_pixel_related_ticket returns a verdict, a
\* reason and a confidence and does not raise.
C13_ClassifyNeverRaises ==
    (out.op = "enhanced_is_pixel_related_ticket") =>
        /\ ~out.raised
        /\ out.result.final_result \in BOOLEAN
        /\ out.result.rule_reason = RuleVerdict.reason
        /\ out.result.combined_confidence \in 0..1000

\* a body that holds a non-blank character somewhere
RECURSIVE carries_text(_)
carries_text(data) ==
    CASE data.k = "str"  -> data.s # ""
      [] data.k = "dict" ->
            IF data.has_content
            THEN \E i \in 1..Len(data.content) : carries_text(data.content[i])
            ELSE data.has_text /\ data.text # ""
      [] data.k = "list" -> \E i \in 1..Len(data.items) : carries_text(data.items[i])
      [] OTHER -> FALSE

\* C14 as stated: for a missing body, an empty body and a structured node that
\* carries no text, extract_text_from_rich_format returns the empty string and
\* does not raise.
C14_NormalizerDegradesToEmpty ==
    (out.op = "extract_text_from_rich_format" /\ ~carries_text(description)) =>
        /\ ~out.raised
        /\ out.result = ""

-----------------------------------------------------------------------------
(* Claims about reason codes (SpecRules) *)

\* C18 as stated: every reason the rule engine returns with the verdict True, and
\* every 'excluded:<term>' reason, is a key of the confidence table.
C18_ReasonsRecognized ==
    (RuleReturned /\ (out.result.verdict
                        \/ SubSeq(out.result.reason, 1, 9) = "excluded:")) =>
        out.result.reason \in DOMAIN confidence_map

\* the case of step 3: no exclusion, no high-confidence phrase, 'pixel' and a
\* context word
PixelWithContext ==
    /\ RuleReturned
    /\ ~AnyIn(exclusions, RuleText)
    /\ ~AnyIn(high_confidence_keywords, RuleText)
    /\ Contains("pixel", RuleText)
    /\ AnyIn(pixel_contexts, RuleText)

\* the verdict the claim expects there: True, with the first context word of the
\* list that occurs in the text
FirstContextWordReported ==
    \E i \in 1..Len(pixel_contexts) :
        /\ Contains(pixel_contexts[i], RuleText)
        /\ \A j \in 1..(i - 1) : ~Contains(pixel_contexts[j], RuleText)
        /\ out.result = Verdict(TRUE, "pixel_context:" \o pixel_contexts[i])

\* the reasons the rule engine gives on the context tickets
ContextReasons ==
    {is_pixel_related_ticket(t.summary, t.description).reason : t \in ContextTickets}

\* C19 as stated: in the case of step 3 the answer is (True, 'pixel_context:<w>')
\* with <w> the first context word in list order that occurs in the text, and
\* every context word of the list is the reported reason of some ticket.
C19_EveryContextWordReported ==
    /\ PixelWithContext => FirstContextWordReported
    /\ RuleReturned =>
          \A w \in ContextWords : ("pixel_context:" \o w) \in ContextReasons

\* C19 amended: for a ticket with a title, in the case of step 3 the answer is
\* (True, 'pixel_context:<w>') with <w> the first context word in list order that
\* occurs in the text; every context word but '0 conversions' is the reported
\* reason of some ticket, and '0 conversions' never is, since a text that holds it
\* holds 'conversion', which comes earlier in the list.
C19_FirstContextWord ==
    /\ (PixelWithContext /\ summary # "") => FirstContextWordReported
    /\ RuleReturned =>
          /\ out.result.reason # "pixel_context:0 conversions"
          /\ \A w \in ContextWords \ {"0 conversions"} :
                ("pixel_context:" \o w) \in ContextReasons

\* 'page' comes first in the title, 'firing' first in the list
C19_Witness ==
    /\ RuleReturned
    /\ summary = "Pixels: page, firing"
    /\ out.result = Verdict(TRUE, "pixel_context:firing")

\* the body as the rule engine would read it
BodyEmpty == desc_text(description) = ""

\* C20 as stated: the answer is (False, 'no_summary') exactly when title and body
\* are both empty, and a ticket with an empty title and a body is classified from
\* the body by the ordered rules.
C20_NoSummaryIffBothEmpty ==
    RuleReturned =>
        /\ out.result = Verdict(FALSE, "no_summary") <=> (summary = "" /\ BodyEmpty)
        /\ (summary = "" /\ ~BodyEmpty) => out.result = rule_steps(RuleText)

\* C20 amended: the answer is (False, 'no_summary') exactly when the title is
\* empty, whatever the body holds, and this is decided before the exclusions; a
\* ticket with an empty title and a body is not classified from the body.
C20_NoSummaryIffEmptyTitle ==
    RuleReturned =>
        /\ out.result = Verdict(FALSE, "no_summary") <=> summary = ""
        /\ out.result.reason = "no_summary" <=> summary = ""

\* no title, and a body that holds an exclusion term and a high-confidence phrase
C20_Witness ==
    /\ RuleReturned
    /\ summary = ""
    /\ description = Str("sync pixel firing")
    /\ AnyIn(exclusions, RuleText)
    /\ out.result = Verdict(FALSE, "no_summary")

-----------------------------------------------------------------------------
(* Pattern Analyzer *)

\* text.split(): the maximal runs of non-blank characters, in order
split(text) ==
    LET starts == {i \in 1..Len(text) :
                      /\ SubSeq(text, i, i) # " "
                      /\ (i = 1 \/ SubSeq(text, i - 1, i - 1) = " ")}
        start(k) == CHOOSE i \in starts : Cardinality({j \in starts : j < i}) = k - 1
        end(i) == CHOOSE j \in i..Len(text) :
                      /\ (j = Len(text) \/ SubSeq(text, j + 1, j + 1) = " ")
                      /\ \A m \in i..j : SubSeq(text, m, m) # " "
    IN  [k \in 1..Cardinality(starts) |-> SubSeq(text, start(k), end(start(k)))]

\* the loop over the fetched rows: patterns.extend(text.split())
RECURSIVE patterns_of(_)
patterns_of(rows) ==
    IF rows = <<>> THEN <<>>
    ELSE split(concat_text(Head(rows).summary, Head(rows).description))
            \o patterns_of(Tail(rows))

\* Counter(patterns).most_common(n): the n most frequent tokens with their
\* counts, equal counts in the order of first occurrence
most_common(patterns, n) ==
    LET firsts == {i \in 1..Len(patterns) : \A j \in 1..(i - 1) : patterns[j] # patterns[i]}
        count(i) == Cardinality({j \in 1..Len(patterns) : patterns[j] = patterns[i]})
        rank(i) == Cardinality({j \in firsts :
                        \/ count(j) > count(i)
                        \/ count(j) = count(i) /\ j < i})
        size == IF Cardinality(firsts) < n THEN Cardinality(firsts) ELSE n
    IN  [r \in 1..size |->
            LET i == CHOOSE i \in firsts : rank(i) = r - 1
            IN  [pattern |-> patterns[i], count |-> count(i)]]

\* [pattern for pattern, count in counter.most_common(n) if count >= 2]
suggested(patterns, n) ==
    LET kept == SelectSeq(most_common(patterns, n), LAMBDA e : e.count >= 2)
    IN  [k \in 1..Len(kept) |-> kept[k].pattern]

feedback_rows(d, label) == SelectSeq(d.feedback, LAMBDA r : r.user_feedback = label)

\* an analysis that suggests every repeated token
analyze_patterns_unlimited(d) ==
    LET false_positives == feedback_rows(d, "false_positive")
        false_negatives == feedback_rows(d, "false_negative")
        fp_patterns == patterns_of(false_positives)
        fn_patterns == patterns_of(false_negatives)
    IN  [false_positive_count |-> Len(false_positives),
         false_negative_count |-> Len(false_negatives),
         common_fp_patterns   |-> most_common(fp_patterns, 10),
         common_fn_patterns   |-> most_common(fn_patterns, 10),
         suggested_exclusions |-> suggested(fp_patterns, Len(fp_patterns)),
         suggested_keywords   |-> suggested(fn_patterns, Len(fn_patterns))]

analyze_patterns(d) ==
    LET false_positives == feedback_rows(d, "false_positive")
        false_negatives == feedback_rows(d, "false_negative")
        fp_patterns == patterns_of(false_positives)
        fn_patterns == patterns_of(false_negatives)
    IN  [false_positive_count |-> Len(false_positives),
         false_negative_count |-> Len(false_negatives),
         common_fp_patterns   |-> most_common(fp_patterns, 10),
         common_fn_patterns   |-> most_common(fn_patterns, 10),
         suggested_exclusions |-> suggested(fp_patterns, 5),
         suggested_keywords   |-> suggested(fn_patterns, 5)]

\* the tickets whose feedback is analyzed
PatternTickets ==
    { [ticket_id |-> "PS-2001", summary |-> "Grant access to dashboard for new user",
       description |-> None],
      [ticket_id |-> "PS-2002", summary |-> "Permission request for advertiser account",
       description |-> Str("Grant access to dashboard")] }

PatternCalls ==
    {[ticket |-> t, detection_reason |-> ReasonOf(t), confidence_score |-> ConfidenceOf(t)] :
        t \in PatternTickets}

\* record_feedback(...) on one of the pattern tickets
RecordPattern ==
    /\ spc = "idle"
    /\ Len(db.feedback) < MaxFeedback
    /\ \E c \in PatternCalls, label \in user_feedbacks :
          db' = record_feedback(db, c.ticket, c.detection_reason, label,
                                c.confidence_score)
    /\ txn' = db'
    /\ out' = [op |-> "record_feedback", raised |-> FALSE]
    /\ UNCHANGED <<pending, spc>>
    /\ UNCHANGED <<summary, description, model, vectorizer, ml_out, pc>>
    /\ UNCHANGED artifactVars
    /\ UNCHANGED concurrentVars

\* analyze_patterns()
AnalyzePatterns ==
    /\ spc = "idle"
    /\ out' = [op |-> "analyze_patterns", raised |-> FALSE,
               result |-> analyze_patterns(db)]
    /\ UNCHANGED <<summary, description, model, vectorizer, ml_out, pc>>
    /\ UNCHANGED storeVars
    /\ UNCHANGED artifactVars
    /\ UNCHANGED concurrentVars

NextPatterns == RecordPattern \/ AnalyzePatterns
SpecPatterns == Init /\ [][NextPatterns]_vars

-----------------------------------------------------------------------------
(* Claims about the Pattern Analyzer (SpecPatterns) *)

Analyzed == out.op = "analyze_patterns"

\* the tokens of all feedback of one label, and how often a token occurs there
TokensOf(label) == patterns_of(feedback_rows(db, label))
Occurrences(tok, toks) == Cardinality({i \in 1..Len(toks) : toks[i] = tok})
FirstAt(tok, toks) == CHOOSE i \in 1..Len(toks) : toks[i] = tok /\ \A j \in 1..(i - 1) : toks[j] # tok
Elements(seq) == {seq[i] : i \in 1..Len(seq)}

\* every token that occurs at least twice is in the list
AllRepeatedListed(toks, list) ==
    \A tok \in Elements(toks) : Occurrences(tok, toks) >= 2 => tok \in Elements(list)

\* the tokens that come before tok by frequency, equal frequencies by first
\* occurrence
Ahead(tok, toks) ==
    {u \in Elements(toks) :
        \/ Occurrences(u, toks) > Occurrences(tok, toks)
        \/ /\ Occurrences(u, toks) = Occurrences(tok, toks)
           /\ FirstAt(u, toks) < FirstAt(tok, toks)}

\* the list holds exactly the repeated tokens with fewer than five tokens ahead
TopFiveRepeatedListed(toks, list) ==
    /\ Len(list) <= 5
    /\ \A tok \in Elements(toks) :
          tok \in Elements(list)
             <=> (Occurrences(tok, toks) >= 2 /\ Cardinality(Ahead(tok, toks)) < 5)
    /\ Elements(list) \subseteq Elements(toks)

\* C16 as stated: suggested_exclusions lists every token that occurs at least 2
\* times in the text of the false-positive feedback, and suggested_keywords every
\* token that occurs at least 2 times in the text of the false-negative feedback.
C16_EveryRepeatedTokenSuggested ==
    Analyzed =>
        /\ AllRepeatedListed(TokensOf("false_positive"), out.result.suggested_exclusions)
        /\ AllRepeatedListed(TokensOf("false_negative"), out.result.suggested_keywords)

\* C16 amended: suggested_exclusions lists the tokens that occur at least 2 times
\* in the text of the false-positive feedback and are among its 5 most frequent
\* tokens (equal counts in order of first occurrence), at most 5 tokens; likewise
\* suggested_keywords for the false-negative feedback.
C16_TopFiveRepeatedTokens ==
    Analyzed =>
        /\ TopFiveRepeatedListed(TokensOf("false_positive"),
                                 out.result.suggested_exclusions)
        /\ TopFiveRepeatedListed(TokensOf("false_negative"),
                                 out.result.suggested_keywords)

\* three false positives, each with 'access' as its seventh token: five tokens
\* are suggested and 'access', seen three times, is not among them
C16_Witness ==
    /\ Analyzed
    /\ out.result.false_positive_count = 3
    /\ \A i \in 1..Len(db.feedback) :
          Contains("access", concat_text(db.feedback[i].summary, db.feedback[i].description))
    /\ Occurrences("access", TokensOf("false_positive")) = 3
    /\ Len(out.result.suggested_exclusions) = 5
    /\ "access" \notin Elements(out.result.suggested_exclusions)

-----------------------------------------------------------------------------
(* Claims about the weights of the fusion (SpecClassify) *)

Hybrid == Fused /\ model # "None"
RuleConfidenceUsed == out.result.analysis.rule_based.confidence
MLConfidenceUsed == out.result.analysis.ml_based.confidence
MLPredictionUsed == out.result.analysis.ml_based.prediction

\* C21: with a model loaded the combined confidence is rule_confidence*0.6 +
\* ml_confidence*0.4 when ml_confidence <= 0.8 and rule_confidence*0.4 +
\* ml_confidence*0.6 when ml_confidence > 0.8; at exactly 0.8 the 0.6/0.4 weights
\* apply, and the two weights sum to 1 (both sides in ten-thousandths).
C21_WeightedCombination ==
    Hybrid =>
        /\ MLConfidenceUsed <= 800 =>
              CombinedConfidence * 10 = RuleConfidenceUsed * 6 + MLConfidenceUsed * 4
        /\ MLConfidenceUsed > 800 =>
              CombinedConfidence * 10 = RuleConfidenceUsed * 4 + MLConfidenceUsed * 6

\* the boundary: a model confidence of exactly 0.8 with a rule confidence of 0.7
\* combines to 0.7*0.6 + 0.8*0.4 = 0.74
C21_Witness ==
    /\ Hybrid
    /\ MLConfidenceUsed = 800
    /\ RuleConfidenceUsed = 700
    /\ CombinedConfidence = 740

\* C25: a ticket the rule engine excludes is never given the final verdict True
\* by enhanced_is_pixel_related_ticket, with or without a model.
C25_ExcludedNeverTrue ==
    (Classified /\ SubSeq(out.result.rule_reason, 1, 9) = "excluded:") =>
        ~out.result.final_result

\* C26: with a model loaded, a rule verdict of False and a model prediction of
\* False give the final verdict False, whatever the two confidences are.
C26_BothFalseStaysFalse ==
    (Hybrid /\ ~out.result.analysis.rule_based.prediction /\ ~MLPredictionUsed) =>
        ~FinalVerdict

-----------------------------------------------------------------------------
(* Claims about the label of an example (Spec) *)

\* the feedback label an example was materialized from
SourceLabel(j) == LatestFeedback(db.training_data[j].ticket_id).user_feedback

\* C22: materialization derives the label as (feedback label = true_positive): a
\* true_positive feedback yields is_pixel_related = True, a false_positive and a
\* false_negative feedback both yield is_pixel_related = False.
C22_LabelIsTruePositive ==
    \A j \in TrainingIds :
        /\ SourceLabel(j) = "true_positive" => db.training_data[j].is_pixel_related
        /\ SourceLabel(j) = "false_positive" => ~db.training_data[j].is_pixel_related
        /\ SourceLabel(j) = "false_negative" => ~db.training_data[j].is_pixel_related

\* one ticket confirmed and one reported as missed: the missed one is stored as
\* not pixel-related
C22_Witness ==
    /\ Len(db.training_data) = 2
    /\ SourceLabel(1) = "true_positive"
    /\ db.training_data[1].is_pixel_related
    /\ SourceLabel(2) = "false_negative"
    /\ ~db.training_data[2].is_pixel_related

-----------------------------------------------------------------------------
(* Claims about what a classification touches (SpecArtifact) *)

\* a step in which a classification call returns or raises
ClassificationStep ==
    /\ out' # out
    /\ out'.op \in {"enhanced_is_pixel_related_ticket", "hybrid_detection"}

\* C24: a classification call leaves the feedback log, the training examples,
\* the performance history, the artifact files and the in-memory model and
\* vectorizer unchanged.
C24_ClassificationChangesNothing ==
    [][ClassificationStep =>
          /\ db' = db
          /\ txn' = txn
          /\ model_performance' = model_performance
          /\ files' = files
          /\ model' = model
          /\ vectorizer' = vectorizer]_vars

\* a classification made with a loaded pair, beside a store that holds examples
\* and a performance row and the two files of a run
C24_Witness ==
    /\ Classified
    /\ out.result.analysis.method = "hybrid"
    /\ model # "None"
    /\ vectorizer = model
    /\ Len(db.training_data) > 0
    /\ Len(model_performance) > 0
    /\ Readable(files.model)
    /\ Readable(files.vectorizer)

-----------------------------------------------------------------------------
(* Claims about a training run that fails (SpecTrain) *)

\* C28: whatever training runs have failed after the sample-count check, the
\* model and the vectorizer in memory are both absent or both of one training
\* run, and a predict_ml call returns (the pair's answer or (False, 0.0)) instead
\* of raising.
C28_FailedTrainingKeepsPair ==
    /\ model = vectorizer
    /\ out.op = "predict_ml" => ~out.raised

-----------------------------------------------------------------------------
(* The interactive monitor: a ticket is classified and, when it is flagged,  *)
(* the user is asked about it (SpecFeedback)                                 *)

\* flagged tickets the user answers for in one run of the monitor
MaxReviews == 2

\* the examples of bootstrap_learning.py: the first pixel_examples of the
\* bootstrap_examples rows are pixel-related
bootstrap_examples == 18
pixel_examples == 8

RECURSIVE BootstrapRows(_)
BootstrapRows(n) ==
    IF n = 0 THEN EmptyDb ELSE InsertExample(BootstrapRows(n - 1), n, n <= pixel_examples)

\* what the user types at the prompt, line by line
Responses == { <<"y">>, <<"n">>, <<"m">>, <<"s">>, <<"x", "y">>, <<"">> }

\* the loop of the prompt: the first line that is y, n, m or s decides; input()
\* raises EOFError when the lines run out
RECURSIVE interactive_feedback_prompt(_)
interactive_feedback_prompt(responses) ==
    IF responses = <<>> THEN "EOFError"
    ELSE CASE Head(responses) = "y" -> "true_positive"
           [] Head(responses) = "n" -> "false_positive"
           [] Head(responses) = "m" -> "false_negative"
           [] Head(responses) = "s" -> "skip"
           [] OTHER -> interactive_feedback_prompt(Tail(responses))

\* what a collect_feedback call leaves: the learning system, the prompt's answer
\* and, as history, the calls it made on the learning system in order
Collected(self, feedback, calls) == [self |-> self, feedback |-> feedback, calls |-> calls]

\* a collector that retrains after every recorded feedback
collect_feedback_always_retrains(self, t, reason, confidence, responses) ==
    LET feedback == interactive_feedback_prompt(responses)
        recorded == [self EXCEPT
                        !.db = record_feedback(self.db, t, reason, feedback, confidence)]
    IN  IF feedback \in {"skip", "EOFError"}
        THEN Collected(self, feedback, <<>>)
        ELSE Collected(train_ml_model(recorded, default_min_samples).self, feedback,
                       <<"record_feedback", "process_feedback_to_training_data",
                         "train_ml_model">>)

\* collect_feedback(ticket_key, summary, description, reason, confidence): the
\* prompt, then record_feedback unless the answer is skip, then train_ml_model()
\* after true_positive and false_positive; an exception of the prompt or of the
\* training is logged and the method returns
collect_feedback(self, t, reason, confidence, responses) ==
    LET feedback == interactive_feedback_prompt(responses)
        recorded == [self EXCEPT
                        !.db = record_feedback(self.db, t, reason, feedback, confidence)]
    IN  IF feedback \in {"skip", "EOFError"}
        THEN Collected(self, feedback, <<>>)
        ELSE IF feedback \in {"true_positive", "false_positive"}
        THEN Collected(train_ml_model(recorded, default_min_samples).self, feedback,
                       <<"record_feedback", "process_feedback_to_training_data",
                         "train_ml_model">>)
        ELSE Collected(recorded, feedback,
                       <<"record_feedback", "process_feedback_to_training_data">>)

\* the tickets the monitor fetches: two that are flagged (PS-9998 by 'tag' in
\* 'stage' and 'setup' in 'In-setup') and one no rule matches
FlowTickets ==
    { [ticket_id |-> "PS-1001", summary |-> "Test pixel validation issue",
       description |-> None],
      [ticket_id |-> "PS-9998", summary |-> PS9998_summary,
       description |-> Str("creatives are not moving from In-setup stage to ready")],
      [ticket_id |-> "PS-2", summary |-> "Creative QA", description |-> Str("")] }

InitFeedback ==
    /\ summary = ""
    /\ description = None
    /\ model = "None"
    /\ vectorizer = "None"
    /\ ml_out \in TrainedAnswers
    /\ pc = "ready"
    /\ out = NoOut
    /\ db = BootstrapRows(bootstrap_examples)
    /\ txn = db
    /\ pending = <<>>
    /\ spc = "idle"
    /\ ArtifactIdle
    /\ ConcurrentIdle

\* process_ticket_with_learning(ticket) in interactive mode: the enhanced
\* detection, and collect_feedback when the ticket is flagged
ProcessTicketWithLearning ==
    /\ spc = "idle"
    /\ trainer.pc = "idle"
    /\ Len(db.feedback) < MaxReviews
    /\ \E t \in FlowTickets, responses \in Responses :
        \E e \in {enhanced_is_pixel_related_ticket(t.summary, t.description)} :
        \E r \in {IF e.final_result
                  THEN collect_feedback(Self, t, e.rule_reason, e.combined_confidence,
                                        responses)
                  ELSE Collected(Self, "not asked", <<>>)} :
              /\ db' = r.self.db
              /\ txn' = r.self.db
              /\ model' = r.self.model
              /\ vectorizer' = r.self.vectorizer
              /\ files' = r.self.files
              /\ model_performance' = r.self.model_performance
              /\ trainer' = [trainer EXCEPT !.run = r.self.run]
              /\ out' = [op |-> "process_ticket_with_learning", raised |-> FALSE,
                         ticket_id |-> t.ticket_id, is_pixel |-> e.final_result,
                         feedback |-> r.feedback, calls |-> r.calls]
    /\ UNCHANGED <<summary, description, ml_out, pc, pending, spc, clock, loader>>
    /\ UNCHANGED concurrentVars

NextFeedback == ProcessTicketWithLearning \/ Tick
SpecFeedback == InitFeedback /\ [][NextFeedback]_vars

-----------------------------------------------------------------------------
(* Claims about the feedback flow (SpecFeedback) *)

\* the step recorded one feedback row for the ticket, with the answer as its
\* label, and materialized it
RecordedAndMaterialized ==
    /\ Len(db'.feedback) = Len(db.feedback) + 1
    /\ db'.feedback[Len(db'.feedback)].ticket_id = out'.ticket_id
    /\ db'.feedback[Len(db'.feedback)].user_feedback = out'.feedback
    /\ db'.feedback[Len(db'.feedback)].processed
    /\ \E j \in 1..Len(db'.training_data) :
          /\ db'.training_data[j].ticket_id = out'.ticket_id
          /\ db'.training_data[j].is_pixel_related = (out'.feedback = "true_positive")

RetrainAttempted == \E i \in DOMAIN out'.calls : out'.calls[i] = "train_ml_model"

\* the retraining attempt is the last call, made after the recording and the
\* materialization
RetrainAfterRecording ==
    out'.calls = <<"record_feedback", "process_feedback_to_training_data",
                   "train_ml_model">>

\* C23: in the feedback flow a retraining attempt is made after, and only after,
\* a true_positive or false_positive feedback has been recorded and
\* materialized; a false_negative is recorded without a retraining attempt; a
\* skip records nothing and triggers no retraining.
C23_RetrainAfterPositiveFeedbackOnly ==
    [][(out'.op = "process_ticket_with_learning" /\ out'.is_pixel) =>
          /\ RetrainAttempted <=> out'.feedback \in {"true_positive", "false_positive"}
          /\ RetrainAttempted => RecordedAndMaterialized /\ RetrainAfterRecording
          /\ out'.feedback = "false_negative" =>
                /\ RecordedAndMaterialized
                /\ UNCHANGED <<model, vectorizer, files, model_performance, trainer>>
          /\ out'.feedback = "skip" =>
                /\ db' = db
                /\ UNCHANGED <<model, vectorizer, files, model_performance, trainer>>
      ]_<<out, db, model, vectorizer, files, model_performance, trainer>>

\* a confirmed ticket whose feedback brought the examples to the default minimum:
\* the attempt that followed trained the first model
C23_Witness ==
    /\ out.op = "process_ticket_with_learning"
    /\ out.feedback = "true_positive"
    /\ out.calls = <<"record_feedback", "process_feedback_to_training_data",
                     "train_ml_model">>
    /\ Len(db.training_data) = default_min_samples
    /\ db.feedback[Len(db.feedback)].processed
    /\ model = "run1"
    /\ Len(model_performance) = 1

-----------------------------------------------------------------------------
(* Two record_feedback calls at once, each on its own connection to          *)
(* learning_data.db (SpecRace).  sqlite3 opens a transaction at the first    *)
(* INSERT/UPDATE of a connection and holds the database's write lock until   *)
(* commit(); a second writer waits for it.  A SELECT takes no transaction    *)
(* and reads the committed tables.                                           *)

Procs == {1, 2}
\* record_feedback calls the two processes make in all
MaxRaceCalls == 2

\* INSERT OR REPLACE INTO feedback; conn.commit(); conn.close()
RaceInsert ==
    /\ \E p \in Procs :
          /\ workers[p].pc = "idle"
          /\ writer = 0
          /\ Len(db.feedback) < MaxRaceCalls
          /\ \E c \in FeedbackCalls, label \in user_feedbacks :
                db' = InsertFeedback(db, c.ticket, c.detection_reason, label,
                                     c.confidence_score)
          /\ txn' = db'
          /\ workers' = [workers EXCEPT ![p].pc = "select"]
    /\ UNCHANGED <<writer, pending, spc>>
    /\ UNCHANGED <<classifyVars, artifactVars, monitorVars>>

\* unprocessed = cursor.fetchall() on the call's second connection
RaceSelect ==
    /\ \E p \in Procs :
          /\ workers[p].pc = "select"
          /\ workers' = [workers EXCEPT ![p].pc = "loop", ![p].pending = Unprocessed(db)]
    /\ UNCHANGED <<writer, storeVars>>
    /\ UNCHANGED <<classifyVars, artifactVars, monitorVars>>

\* INSERT OR REPLACE INTO training_data for the call's next fetched row; the
\* first one of a pass takes the write lock
RaceUpsert ==
    /\ \E p \in Procs :
          /\ workers[p].pc = "loop"
          /\ workers[p].pending # <<>>
          /\ writer \in {0, p}
          /\ txn' = UpsertTraining(txn, Head(workers[p].pending))
          /\ writer' = p
          /\ workers' = [workers EXCEPT ![p].pc = "mark"]
    /\ UNCHANGED <<db, pending, spc>>
    /\ UNCHANGED <<classifyVars, artifactVars, monitorVars>>

\* UPDATE feedback SET processed = TRUE for that row
RaceMark ==
    /\ \E p \in Procs :
          /\ workers[p].pc = "mark"
          /\ txn' = MarkProcessed(txn, Head(workers[p].pending).id)
          /\ workers' = [workers EXCEPT ![p].pc = "loop", ![p].pending = Tail(@)]
    /\ UNCHANGED <<db, writer, pending, spc>>
    /\ UNCHANGED <<classifyVars, artifactVars, monitorVars>>

\* conn.commit(); conn.close() after the loop, and the call returns
RaceCommit ==
    /\ \E p \in Procs :
          /\ workers[p].pc = "loop"
          /\ workers[p].pending = <<>>
          /\ db' = IF writer = p THEN txn ELSE db
          /\ writer' = IF writer = p THEN 0 ELSE writer
          /\ workers' = [workers EXCEPT ![p].pc = "idle"]
    /\ UNCHANGED <<txn, pending, spc>>
    /\ UNCHANGED <<classifyVars, artifactVars, monitorVars>>

NextRace == RaceInsert \/ RaceSelect \/ RaceUpsert \/ RaceMark \/ RaceCommit
SpecRace == Init /\ [][NextRace]_vars

-----------------------------------------------------------------------------
(* Claims about concurrent feedback (SpecRace) *)

AllReturned == \A p \in Procs : workers[p].pc = "idle"

\* C27: when the concurrent record_feedback calls have all returned, the
\* TrainingExample of every ticket carries the label of the feedback row inserted
\* last for it, and every feedback row has been materialized exactly once.
C27_ConcurrentFeedbackLatestOnce ==
    AllReturned =>
        /\ \A j \in TrainingIds :
              db.training_data[j].is_pixel_related
                 = (LatestFeedback(db.training_data[j].ticket_id).user_feedback
                      = "true_positive")
        /\ \A i \in FeedbackIds : db.feedback[i].processed /\ db.upserts[i] = 1

-----------------------------------------------------------------------------
(* ContinuousPixelMonitor: the main thread in run() and the daemon thread in *)
(* handle_user_input() (SpecMonitor, SpecMonitorFair).  A position named     *)
(* after a call ("display", "scheduled_check", "forced_check", ...) is the   *)
(* thread being inside that call; the step that leaves it is the call        *)
(* returning.                                                                *)

\* the daemon thread lives as long as the process
ProcessAlive == main_pc \notin {"start", "exited"}

\* run() up to the initial check: the handlers are set, the input thread is
\* started, the header is printed and run_pixel_check is entered
MainStart ==
    /\ main_pc = "start"
    /\ main_pc' = "initial_check"
    /\ input_pc' = "test"
    /\ UNCHANGED <<running, paused, pause_lock, due>>
    /\ UNCHANGED <<learningVars, raceVars>>

\* the initial run_pixel_check returns: last_check = now
MainInitialCheckDone ==
    /\ main_pc = "initial_check"
    /\ main_pc' = "loop_test"
    /\ due' = FALSE
    /\ UNCHANGED <<running, paused, pause_lock, input_pc>>
    /\ UNCHANGED <<learningVars, raceVars>>

\* while self.running:
MainLoopTest ==
    /\ main_pc = "loop_test"
    /\ main_pc' = IF running THEN "acquire" ELSE "exited"
    /\ UNCHANGED <<running, paused, pause_lock, input_pc, due>>
    /\ UNCHANGED <<learningVars, raceVars>>

\* with self.pause_lock: the main thread waits until the lock is free
MainAcquire ==
    /\ main_pc = "acquire"
    /\ pause_lock = "free"
    /\ pause_lock' = "main"
    /\ main_pc' = "read_paused"
    /\ UNCHANGED <<running, paused, input_pc, due>>
    /\ UNCHANGED <<learningVars, raceVars>>

\* should_display = not self.paused, and the lock is released; the display is
\* drawn if should_display
MainReadPaused ==
    /\ main_pc = "read_paused"
    /\ pause_lock' = "free"
    /\ main_pc' = IF ~paused THEN "display" ELSE "sleep"
    /\ UNCHANGED <<running, paused, input_pc, due>>
    /\ UNCHANGED <<learningVars, raceVars>>

\* clear_screen() ... print_controls() are done; run_pixel_check is entered when
\* time_since_check >= check_interval
MainDisplayDone ==
    /\ main_pc = "display"
    /\ main_pc' = IF due THEN "scheduled_check" ELSE "sleep"
    /\ UNCHANGED <<running, paused, pause_lock, input_pc, due>>
    /\ UNCHANGED <<learningVars, raceVars>>

\* the scheduled run_pixel_check returns: last_check = now
MainScheduledCheckDone ==
    /\ main_pc = "scheduled_check"
    /\ main_pc' = "sleep"
    /\ due' = FALSE
    /\ UNCHANGED <<running, paused, pause_lock, input_pc>>
    /\ UNCHANGED <<learningVars, raceVars>>

\* time.sleep(1): the interval may run out meanwhile
MainSleepDone ==
    /\ main_pc = "sleep"
    /\ main_pc' = "loop_test"
    /\ \E elapsed \in BOOLEAN : due' = (due \/ elapsed)
    /\ UNCHANGED <<running, paused, pause_lock, input_pc>>
    /\ UNCHANGED <<learningVars, raceVars>>

\* while self.running: in handle_user_input, then input()
InputLoopTest ==
    /\ ProcessAlive
    /\ input_pc = "test"
    /\ input_pc' = IF running THEN "input" ELSE "ended"
    /\ UNCHANGED <<running, paused, pause_lock, main_pc, due>>
    /\ UNCHANGED <<learningVars, raceVars>>

\* the lines a user types at the monitor, and the end of input
Lines == {"", "log", "quit", "clear", "EOF"}

\* input() returns a line: the empty line and 'log' go on to the paused section,
\* quit/exit/stop clears running, another command is handled on the spot, the
\* end of input (EOFError) ends the thread
UserLine ==
    /\ ProcessAlive
    /\ input_pc = "input"
    /\ \E line \in Lines :
          /\ input_pc' = CASE line = ""    -> "acquire_check"
                           [] line = "log" -> "acquire_log"
                           [] line = "EOF" -> "ended"
                           [] OTHER        -> "test"
          /\ running' = IF line = "quit" THEN FALSE ELSE running
    /\ UNCHANGED <<paused, pause_lock, main_pc, due>>
    /\ UNCHANGED <<learningVars, raceVars>>

\* with self.pause_lock: self.paused = True, then time.sleep(0.1) is entered
InputAcquire ==
    /\ ProcessAlive
    /\ input_pc \in {"acquire_check", "acquire_log"}
    /\ pause_lock = "free"
    /\ pause_lock' = "input"
    /\ paused' = TRUE
    /\ input_pc' = IF input_pc = "acquire_check" THEN "notice_check" ELSE "notice_log"
    /\ UNCHANGED <<running, main_pc, due>>
    /\ UNCHANGED <<learningVars, raceVars>>

\* time.sleep(0.1) is over: the banner is printed and run_pixel_check is entered,
\* or the log is being shown
InputNoticeDone ==
    /\ ProcessAlive
    /\ input_pc \in {"notice_check", "notice_log"}
    /\ input_pc' = IF input_pc = "notice_check" THEN "forced_check" ELSE "show_log"
    /\ UNCHANGED <<running, paused, pause_lock, main_pc, due>>
    /\ UNCHANGED <<learningVars, raceVars>>

\* the forced run_pixel_check returns (last_check = now) or the log is printed;
\* "Press Enter to resume monitoring..." and input()
InputSectionDone ==
    /\ ProcessAlive
    /\ input_pc \in {"forced_check", "show_log"}
    /\ input_pc' = "await_enter"
    /\ due' = IF input_pc = "forced_check" THEN FALSE ELSE due
    /\ UNCHANGED <<running, paused, pause_lock, main_pc>>
    /\ UNCHANGED <<learningVars, raceVars>>

\* the user presses Enter: self.paused = False and the with block releases the
\* lock; at the end of input EOFError leaves the with block, paused still True,
\* and ends the thread
UserEnter ==
    /\ ProcessAlive
    /\ input_pc = "await_enter"
    /\ pause_lock' = "free"
    /\ \E line \in {"", "EOF"} :
          /\ paused' = IF line = "EOF" THEN paused ELSE FALSE
          /\ input_pc' = IF line = "EOF" THEN "ended" ELSE "test"
    /\ UNCHANGED <<running, main_pc, due>>
    /\ UNCHANGED <<learningVars, raceVars>>

\* SIGINT or SIGTERM: signal_handler runs in the main thread between two of its
\* instructions, also while it waits for a lock or sleeps, and the interrupted
\* call then goes on
Signal ==
    /\ ProcessAlive
    /\ running
    /\ running' = FALSE
    /\ UNCHANGED <<paused, pause_lock, main_pc, input_pc, due>>
    /\ UNCHANGED <<learningVars, raceVars>>

MainStep ==
    \/ MainStart \/ MainInitialCheckDone \/ MainLoopTest \/ MainAcquire
    \/ MainReadPaused \/ MainDisplayDone \/ MainScheduledCheckDone \/ MainSleepDone
InputStep == InputLoopTest \/ InputAcquire \/ InputNoticeDone \/ InputSectionDone
NextMonitor == MainStep \/ InputStep \/ UserLine \/ UserEnter \/ Signal
SpecMonitor == Init /\ [][NextMonitor]_vars

\* a thread that can run does run; nothing makes the user type or a signal come
SpecMonitorFair == SpecMonitor /\ WF_vars(MainStep) /\ WF_vars(InputStep)

-----------------------------------------------------------------------------
(* Claims about the monitor's threads (SpecMonitor, SpecMonitorFair) *)

\* the input thread is between self.paused = True and self.paused = False
InPausedSection ==
    input_pc \in {"notice_check", "notice_log", "forced_check", "show_log", "await_enter"}

\* C29: the scheduled check of the main loop and the forced check of the input
\* thread are never inside run_pixel_check at the same time, and the main loop
\* neither redraws the screen nor starts a scheduled check while the input
\* thread is inside its paused section.
C29_ChecksAndDisplayExcluded ==
    /\ ~(main_pc = "scheduled_check" /\ input_pc = "forced_check")
    /\ InPausedSection => main_pc \notin {"display", "scheduled_check"}

\* C30: once a stop has been requested (running is False) the main loop
\* eventually exits, with no further input from the user.
C30_StopLeadsToExit == (running = FALSE) ~> (main_pc = "exited")

====
